---- MODULE Spec2Model ----
(***************************************************************************)
(* Sales forecast model service (saraatrapero/forecast, model-service).    *)
(*                                                                         *)
(* Two entry points are modelled:                                          *)
(*   "app"  : app/main.py predict_forecast, with ProphetForecaster,         *)
(*            HoltWintersForecaster, SARIMAXForecaster, EnsembleForecaster, *)
(*            CustomerClusterer, SurvivalAnalyzer, TimeSeriesValidator      *)
(*   "root" : main.py predict, with AdvancedForecaster, ClientClusterer,    *)
(*            SurvivalAnalyzer, validate_sales_data                         *)
(*                                                                         *)
(* Money amounts are exact rationals <<numerator, denominator>> in lowest   *)
(* terms, so that means, weights and probabilities lose nothing.  What a    *)
(* numerical library answers (a fit, a prediction, a holdout score) is a    *)
(* choice of the environment, made once per request and component.          *)
(* Fields no property reads are left out of the records: the descriptive    *)
(* tags, variacion, crecimientoEsperado, p10/p50/p90 and cv_scores.         *)
(***************************************************************************)
EXTENDS Integers, Sequences, FiniteSets, TLC

(***************************************************************************)
(* Exact arithmetic                                                        *)
(***************************************************************************)
Abs(x) == IF x < 0 THEN -x ELSE x

Min(a, b) == IF a < b THEN a ELSE b

Max(a, b) == IF a < b THEN b ELSE a

RECURSIVE GCD(_, _)
GCD(a, b) == IF b = 0 THEN a ELSE GCD(b, a % b)

Rat(n, d) ==
    LET g == GCD(Abs(n), Abs(d))
        s == IF d < 0 THEN -1 ELSE 1
    IN  <<(s * n) \div g, (s * d) \div g>>

R(v) == <<v, 1>>

RAdd(a, b) ==
    LET l == (a[2] \div GCD(a[2], b[2])) * b[2]
    IN  Rat(a[1] * (l \div a[2]) + b[1] * (l \div b[2]), l)

RMul(a, b) == Rat(a[1] * b[1], a[2] * b[2])

RDiv(a, b) == Rat(a[1] * b[2], a[2] * b[1])

RLt(a, b) == a[1] * b[2] < b[1] * a[2]

RLeq(a, b) == a[1] * b[2] <= b[1] * a[2]

RPos(a) == a[1] > 0

RNonNeg(a) == a[1] >= 0

RECURSIVE ISum(_)
ISum(s) == IF s = <<>> THEN 0 ELSE Head(s) + ISum(Tail(s))

\* the least common multiple of the denominators of s
RECURSIVE LCMDen(_)
LCMDen(s) ==
    IF s = <<>> THEN 1
    ELSE LET l == LCMDen(Tail(s))
         IN  (l \div GCD(l, Head(s)[2])) * Head(s)[2]

\* sum(s) over one common denominator
RSum(s) ==
    LET d == LCMDen(s)
    IN  Rat(ISum([i \in DOMAIN s |-> s[i][1] * (d \div s[i][2])]), d)

RMean(s) == RDiv(RSum(s), R(Len(s)))

(***************************************************************************)
(* Sequence helpers (Python list idioms)                                   *)
(***************************************************************************)
Range(s) == {s[i] : i \in DOMAIN s}

Rep(v, n) == [i \in 1..n |-> v]

Map1(s, Op(_)) == [i \in DOMAIN s |-> Op(s[i])]

\* s[-k:]
LastK(s, k) == IF Len(s) <= k THEN s ELSE SubSeq(s, Len(s) - k + 1, Len(s))

\* s[:k]
FirstK(s, k) == IF Len(s) <= k THEN s ELSE SubSeq(s, 1, k)

Filter(s, Keep(_)) == SelectSeq(s, Keep)

RECURSIVE Concat(_)
Concat(ss) == IF ss = <<>> THEN <<>> ELSE Head(ss) \o Concat(Tail(ss))

\* list.index(x): position of the first occurrence, 0 when absent (the code raises)
RECURSIVE IndexFrom(_, _, _)
IndexFrom(s, x, i) ==
    IF i > Len(s) THEN 0
    ELSE IF s[i] = x THEN i ELSE IndexFrom(s, x, i + 1)

Index(s, x) == IndexFrom(s, x, 1)

\* dict.get(k, 0)
Get(f, k) == IF k \in DOMAIN f THEN f[k] ELSE 0

\* sorted(s, key=..., reverse=True): stable, descending.  SortPerm gives the
\* positions of the keys in sorted order.
\* the place of key i in the sorted order: after every larger key and after
\* the equal keys that come before it
SortRank(keys, i) ==
    1 + Cardinality({j \in DOMAIN keys :
                        \/ RLt(keys[i], keys[j])
                        \/ j < i /\ ~RLt(keys[j], keys[i])})

SortPerm(keys) == [p \in DOMAIN keys |-> CHOOSE i \in DOMAIN keys : SortRank(keys, i) = p]

SortDesc(s, Key(_)) ==
    LET perm == SortPerm([i \in DOMAIN s |-> Key(s[i])])
    IN  [i \in DOMAIN s |-> s[perm[i]]]

(***************************************************************************)
(* Values that stand for Python's None and the undefined-metric sentinel   *)
(***************************************************************************)
None == <<>>

MAPE_UNDEFINED == 999

TopN == 20

(***************************************************************************)
(* Request data: SalesData, ClienteData, SkuData                           *)
(*   sales   = [clientes, meses, mesesFecha]                                *)
(*   cliente = [codigo, skus]                                               *)
(*   sku     = [skuId, codigoCliente, ventasMes]   ventasMes: month -> value*)
(***************************************************************************)
\* every sku of the dataset in iteration order, with the customer that owns it
Skus(sales) ==
    Concat([ci \in DOMAIN sales.clientes |->
              [si \in DOMAIN sales.clientes[ci].skus |->
                 [ci |-> ci,
                  owner |-> sales.clientes[ci].codigo,
                  sku |-> sales.clientes[ci].skus[si]]]])

\* historico = [sku.ventasMes.get(m, 0) for m in meses[:end_idx + 1]]
Historico(sku, meses, end_idx) ==
    [i \in 1..end_idx |-> Get(sku.ventasMes, meses[i])]

Zeros(n) == Rep(R(0), n)

\* the library's values taken as they come, negative ones included
Unclamped(raw) == [i \in DOMAIN raw |-> R(raw[i])]

\* [max(0, val) for val in ...]
Clamp(raw) == [i \in DOMAIN raw |-> IF raw[i] < 0 THEN R(0) ELSE R(raw[i])]

Positives(historico) == Filter(historico, LAMBDA v : v > 0)

(***************************************************************************)
(* app/models: the per-entity part of ProphetForecaster.forecast and        *)
(* HoltWintersForecaster.forecast.  o is what the library answers for this  *)
(* entity: [raises, raw, mape].                                            *)
(***************************************************************************)
\* a closing rule that asks for strictly negative months
cerrado_if_negative(recent_sales) ==
    IF Len(recent_sales) < 3 THEN FALSE
    ELSE \A i \in DOMAIN LastK(recent_sales, 3) : LastK(recent_sales, 3)[i] < 0

is_cliente_cerrado(recent_sales) ==
    IF Len(recent_sales) < 3 THEN FALSE
    ELSE \A i \in DOMAIN LastK(recent_sales, 3) : LastK(recent_sales, 3)[i] <= 0

is_closed(recent) ==
    IF Len(recent) < 3 THEN FALSE
    ELSE \A i \in DOMAIN LastK(recent, 3) : LastK(recent, 3)[i] <= 0

\* historico[-4:] if len(historico) >= 4 else historico
Recent(historico) == IF Len(historico) >= 4 THEN LastK(historico, 4) ELSE historico

seasonal_naive_fallback(historico, forecast_months, period) ==
    IF Len(historico) < period
    THEN LET last_val == IF Len(historico) > 0 THEN historico[Len(historico)] ELSE 0
         IN  Rep(IF last_val < 0 THEN R(0) ELSE R(last_val), forecast_months)
    ELSE [k \in 1..forecast_months |->
            LET idx == Len(historico) - period + ((k - 1) % period)
            IN  IF idx < Len(historico)
                THEN (IF historico[idx + 1] < 0 THEN R(0) ELSE R(historico[idx + 1]))
                ELSE R(0)]

\* the holdout of _calculate_cv_mape and _calculate_mape: the last
\* min(3, len // 4) values; errors only where actual > 0; 999 without errors.
\* pred is what the model fitted on the train part predicts for each of them
HoldoutMape(series, pred) ==
    LET test_size == Min(3, Len(series) \div 4)
        valid == Positives(LastK(series, test_size))
        errors == [i \in DOMAIN valid |-> Rat(Abs(valid[i] - pred), valid[i])]
    IN  IF errors = <<>> THEN R(MAPE_UNDEFINED)
        ELSE RMul(RMean(errors), R(100))

\* o.cv_raises: the fit on the train part raises (except: return 999)
calculate_cv_mape(df, o) ==
    IF Len(df) < 6 THEN R(MAPE_UNDEFINED)
    ELSE IF o.cv_raises THEN R(MAPE_UNDEFINED)
    ELSE HoldoutMape(df, o.pred)

Prophet_sku(historico, forecast_months, seasonal_period, o) ==
    IF Len(historico) < 3 \/ ISum(historico) = 0
    THEN [detail |-> Zeros(forecast_months), mape |-> R(MAPE_UNDEFINED), fitted |-> FALSE]
    ELSE LET df == Positives(historico)
         IN  IF Len(df) < 3
             THEN [detail |-> Zeros(forecast_months), mape |-> R(MAPE_UNDEFINED),
                   fitted |-> FALSE]
             ELSE IF o.raises
                  THEN [detail |-> seasonal_naive_fallback(historico, forecast_months,
                                                           seasonal_period),
                        mape |-> R(MAPE_UNDEFINED), fitted |-> FALSE]
                  ELSE [detail |-> Clamp(o.raw), mape |-> calculate_cv_mape(df, o),
                        fitted |-> TRUE]

fallback_forecast(historico, periods) ==
    IF historico = <<>> \/ ISum(historico) = 0 THEN Zeros(periods)
    ELSE LET last_valid == Positives(historico)
         IN  IF last_valid = <<>> THEN Zeros(periods)
             ELSE LET avg == RMean(Map1(LastK(last_valid, Min(3, Len(last_valid))), R))
                  IN  Rep(IF RLt(avg, R(0)) THEN R(0) ELSE avg, periods)

\* pd.Series([h if h > 0 else nan ...]).fillna(method='ffill').fillna(0)
RECURSIVE FFill(_, _)
FFill(historico, prev) ==
    IF historico = <<>> THEN <<>>
    ELSE LET v == IF Head(historico) > 0 THEN Head(historico) ELSE prev
         IN  <<v>> \o FFill(Tail(historico), v)

calculate_mape(ts, o) ==
    IF Len(ts) < 6 THEN R(MAPE_UNDEFINED)
    ELSE IF o.cv_raises THEN R(MAPE_UNDEFINED)
    ELSE HoldoutMape(ts, o.pred)

HoltWinters_sku(historico, forecast_months, seasonal_period, o) ==
    IF Len(historico) < 2 * seasonal_period \/ ISum(historico) = 0
    THEN [detail |-> fallback_forecast(historico, forecast_months),
          mape |-> R(MAPE_UNDEFINED), fitted |-> FALSE]
    ELSE LET ts == FFill(historico, 0)
         IN  IF ISum(ts) = 0 \/ Len(Positives(ts)) < seasonal_period
             THEN [detail |-> fallback_forecast(historico, forecast_months),
                   mape |-> R(MAPE_UNDEFINED), fitted |-> FALSE]
             ELSE IF o.raises
                  THEN [detail |-> fallback_forecast(historico, forecast_months),
                        mape |-> R(MAPE_UNDEFINED), fitted |-> FALSE]
                  ELSE [detail |-> Clamp(o.raw), mape |-> calculate_mape(ts, o),
                        fitted |-> TRUE]

\* an entity dict that labels the entity and keeps the model's values
Labelled_result(owner, sku, historico, forecast_months, r) ==
    [codigoCliente |-> owner,
     skuId |-> sku.skuId,
     ultimoValor |-> IF historico = <<>> THEN R(0) ELSE R(historico[Len(historico)]),
     forecast |-> IF r.detail = <<>> THEN R(0) ELSE r.detail[1],
     estado |-> IF is_cliente_cerrado(Recent(historico)) THEN "cerrado" ELSE "activo",
     mape |-> IF RLt(r.mape, R(MAPE_UNDEFINED)) THEN r.mape ELSE None,
     forecast_detalle |-> r.detail]

\* the entity dict both forecasters append to resultados_por_sku
Prophet_result(owner, sku, historico, forecast_months, r) ==
    LET cerrado == is_cliente_cerrado(Recent(historico))
        forecast_detail == IF cerrado THEN Zeros(forecast_months) ELSE r.detail
        primer_forecast == IF cerrado \/ r.detail = <<>> THEN R(0) ELSE r.detail[1]
    IN  [codigoCliente |-> owner,
         skuId |-> sku.skuId,
         ultimoValor |-> IF historico = <<>> THEN R(0) ELSE R(historico[Len(historico)]),
         forecast |-> primer_forecast,
         estado |-> IF cerrado THEN "cerrado" ELSE "activo",
         mape |-> IF RLt(r.mape, R(MAPE_UNDEFINED)) THEN r.mape ELSE None,
         forecast_detalle |-> forecast_detail]

HoltWinters_result(owner, sku, historico, forecast_months, r) ==
    LET cerrado == is_closed(Recent(historico))
        forecast_detail == IF cerrado THEN Zeros(forecast_months) ELSE r.detail
        primer_forecast == IF cerrado \/ r.detail = <<>> THEN R(0) ELSE r.detail[1]
    IN  [codigoCliente |-> owner,
         skuId |-> sku.skuId,
         ultimoValor |-> IF historico = <<>> THEN R(0) ELSE R(historico[Len(historico)]),
         forecast |-> primer_forecast,
         estado |-> IF cerrado THEN "cerrado" ELSE "activo",
         mape |-> IF RLt(r.mape, R(MAPE_UNDEFINED)) THEN r.mape ELSE None,
         forecast_detalle |-> forecast_detail]

(***************************************************************************)
(* The rest of ProphetForecaster.forecast / HoltWintersForecaster.forecast: *)
(* customer aggregates, totals, charts, the sorted top list.               *)
(*                                                                         *)
(* A forecast result keeps the entity dicts once, in `skus` (this is        *)
(* detalleCompleto.resultadosPorSku); `top` holds references (positions in  *)
(* skus) and is resultadosPorSku: the two lists share the same dict objects.*)
(***************************************************************************)
Indices(s) == [k \in 1..Len(s) |-> k]

\* the entity dicts of customer record ci
ResultsOf(sales, results, ci) ==
    LET own == Skus(sales)
        ks == SelectSeq(Indices(own), LAMBDA k : own[k].ci = ci)
    IN  [j \in DOMAIN ks |-> results[ks[j]]]

CountActivo(rs) == Len(SelectSeq(rs, LAMBDA r : r.estado = "activo"))

\* resultados_por_cliente: a dict keyed by codigo, filled in customer order;
\* a codigo already present is not written again
RECURSIVE ClienteAggs(_, _, _, _)
ClienteAggs(sales, results, ci, acc) ==
    IF ci > Len(sales.clientes) THEN acc
    ELSE LET cliente_codigo == sales.clientes[ci].codigo
             mine == ResultsOf(sales, results, ci)
             agg == [codigoCliente |-> cliente_codigo,
                     ventasHistorico |-> RSum([j \in DOMAIN mine |-> mine[j].ultimoValor]),
                     ventasForecast |-> RSum([j \in DOMAIN mine |-> mine[j].forecast]),
                     skusActivos |-> CountActivo(mine)]
         IN  ClienteAggs(sales, results, ci + 1,
                  IF \E j \in DOMAIN acc : acc[j].codigoCliente = cliente_codigo
                  THEN acc ELSE Append(acc, agg))

\* a chart that adds up the first customer record only
FirstClienteHistorico(sales, end_idx) ==
    [i \in 1..end_idx |->
       [mes |-> sales.meses[i],
        ventas |-> RSum([si \in DOMAIN sales.clientes[1].skus |->
                           R(Get(sales.clientes[1].skus[si].ventasMes, sales.meses[i]))])]]

\* grafico_historico over meses[:end_idx + 1]
GraficoHistorico(sales, end_idx) ==
    LET own == Skus(sales)
    IN  [i \in 1..end_idx |->
           [mes |-> sales.meses[i],
            ventas |-> RSum([k \in DOMAIN own |-> R(Get(own[k].sku.ventasMes, sales.meses[i]))])]]

\* sum(r["forecast_detalle"][i] for r in results if i < len(r["forecast_detalle"]))
\* the calendar: dates are [y, m, d]
IsLeap(y) == (y % 4 = 0 /\ y % 100 # 0) \/ y % 400 = 0

DaysIn(y, m) ==
    IF m = 2 THEN (IF IsLeap(y) THEN 29 ELSE 28)
    ELSE IF m \in {4, 6, 9, 11} THEN 30 ELSE 31

NextMonth(f) == IF f.m = 12 THEN [f EXCEPT !.y = @ + 1, !.m = 1] ELSE [f EXCEPT !.m = @ + 1]

\* date + timedelta(days=n)
RECURSIVE AddDays(_, _)
AddDays(f, n) ==
    IF f.d + n <= DaysIn(f.y, f.m) THEN [f EXCEPT !.d = @ + n]
    ELSE AddDays([NextMonth(f) EXCEPT !.d = 0], f.d + n - DaysIn(f.y, f.m))

\* strftime("%Y-%m")
YearMonth(f) == <<f.y, f.m>>

\* date + pd.DateOffset(months=1): the same day of the next month, or its last
DateOffset(f) ==
    LET n == NextMonth(f)
    IN  [n EXCEPT !.d = Min(f.d, DaysIn(n.y, n.m))]

\* for i in range(forecast_months): append(current_date.strftime("%Y-%m"));
\* current_date += pd.DateOffset(months=1)
RECURSIVE OffsetMonthsFrom(_, _)
OffsetMonthsFrom(current_date, forecast_months) ==
    IF forecast_months = 0 THEN <<>>
    ELSE <<YearMonth(current_date)>>
         \o OffsetMonthsFrom(DateOffset(current_date), forecast_months - 1)

\* forecast_meses of ProphetForecaster.forecast and HoltWintersForecaster.forecast
forecast_meses(cutoff_date, forecast_months) ==
    OffsetMonthsFrom(DateOffset(cutoff_date), forecast_months)

ForecastMes(results, i) ==
    RSum([k \in DOMAIN results |->
            IF i <= Len(results[k].forecast_detalle)
            THEN results[k].forecast_detalle[i] ELSE R(0)])

GraficoForecast(results, forecast_months) ==
    [i \in 1..forecast_months |-> [forecast |-> ForecastMes(results, i)]]

\* sorted(resultados_por_sku, key=forecast, reverse=True)[:20], as references
TopRefs(results) == FirstK(SortPerm([k \in DOMAIN results |-> results[k].forecast]), TopN)

SortClientes(aggs) == SortDesc(aggs, LAMBDA c : c.ventasForecast)

BuildForecast(sales, end_idx, forecast_months, results) ==
    LET aggs == ClienteAggs(sales, results, 1, <<>>)
    IN  [summary |->
           [totalVentasHistoricas |-> RSum([k \in DOMAIN results |-> results[k].ultimoValor]),
            totalForecast |-> RSum([k \in DOMAIN results |-> results[k].forecast]),
            clientesActivos |-> Len(SelectSeq(aggs, LAMBDA c : c.skusActivos > 0)),
            clientesTotales |-> Len(sales.clientes),
            skusActivos |-> CountActivo(results)],
         graficoHistorico |-> GraficoHistorico(sales, end_idx),
         graficoForecast |-> GraficoForecast(results, forecast_months),
         skus |-> results,
         top |-> TopRefs(results),
         resultadosPorCliente |-> SortClientes(aggs),
         detalleClientes |-> aggs,
         meses |-> FirstK(sales.meses, end_idx),
         forecastMeses |-> forecast_meses(sales.mesesFecha[end_idx], forecast_months)]

\* fit[k] is the library's answer for the k-th sku of the dataset
Prophet_forecast(sales, forecast_months, end_date, seasonal_period, fit) ==
    LET end_idx == Index(sales.meses, end_date)
        own == Skus(sales)
        results == [k \in DOMAIN own |->
            LET historico == Historico(own[k].sku, sales.meses, end_idx)
            IN  Prophet_result(own[k].owner, own[k].sku, historico, forecast_months,
                    Prophet_sku(historico, forecast_months, seasonal_period, fit[k]))]
    IN  BuildForecast(sales, end_idx, forecast_months, results)

HoltWinters_forecast(sales, forecast_months, end_date, seasonal_period, fit) ==
    LET end_idx == Index(sales.meses, end_date)
        own == Skus(sales)
        results == [k \in DOMAIN own |->
            LET historico == Historico(own[k].sku, sales.meses, end_idx)
            IN  HoltWinters_result(own[k].owner, own[k].sku, historico, forecast_months,
                    HoltWinters_sku(historico, forecast_months, seasonal_period, fit[k]))]
    IN  BuildForecast(sales, end_idx, forecast_months, results)

(***************************************************************************)
(* SARIMAXForecaster (app/models/sarimax_model.py) is imported by           *)
(* app/main.py and ensemble_model.py but is not among the sources.  It is   *)
(* modelled from the specification: the seasonal guard of 12 nonzero        *)
(* periods, the Fallback Policy (mean of the last up-to-3 nonzero values),  *)
(* outputs clamped at 0, and the Lifecycle Classifier applied as in the     *)
(* sibling forecasters.                                                     *)
(***************************************************************************)
NonZero(historico) == Filter(historico, LAMBDA v : v # 0)

SARIMAX_sku(historico, forecast_months, o) ==
    LET nz == NonZero(historico)
        avg == IF nz = <<>> THEN R(0)
               ELSE RMean(Map1(LastK(nz, Min(3, Len(nz))), R))
        refusal == [detail |-> Rep(IF RLt(avg, R(0)) THEN R(0) ELSE avg, forecast_months),
                    mape |-> R(MAPE_UNDEFINED), fitted |-> FALSE]
    IN  IF Len(nz) < 12 \/ o.raises THEN refusal
        ELSE [detail |-> Clamp(o.raw),
              mape |-> IF Len(historico) < 6 \/ o.cv_raises THEN R(MAPE_UNDEFINED)
                       ELSE HoldoutMape(historico, o.pred),
              fitted |-> TRUE]

SARIMAX_result(owner, sku, historico, forecast_months, r) ==
    LET cerrado == is_closed(Recent(historico))
        insufficient == Len(NonZero(historico)) < 2
    IN  [codigoCliente |-> owner,
         skuId |-> sku.skuId,
         ultimoValor |-> IF historico = <<>> THEN R(0) ELSE R(historico[Len(historico)]),
         forecast |-> IF cerrado \/ r.detail = <<>> THEN R(0) ELSE r.detail[1],
         estado |-> IF cerrado THEN "cerrado"
                    ELSE IF insufficient THEN "sin_datos_suficientes" ELSE "activo",
         mape |-> IF RLt(r.mape, R(MAPE_UNDEFINED)) /\ ~insufficient THEN r.mape ELSE None,
         forecast_detalle |-> IF cerrado THEN Zeros(forecast_months) ELSE r.detail]

SARIMAX_forecast(sales, forecast_months, end_date, fit) ==
    LET end_idx == Index(sales.meses, end_date)
        own == Skus(sales)
        results == [k \in DOMAIN own |->
            LET historico == Historico(own[k].sku, sales.meses, end_idx)
            IN  SARIMAX_result(own[k].owner, own[k].sku, historico, forecast_months,
                    SARIMAX_sku(historico, forecast_months, fit[k]))]
    IN  BuildForecast(sales, end_idx, forecast_months, results)

(***************************************************************************)
(* app/utils/survival_analysis.py                                          *)
(***************************************************************************)
\* round(1000 * exp(-0.2 * k)) for k = 0..30; below 0.05 from k = 15 on
ExpFifthTable ==
    <<1000, 819, 670, 549, 449, 368, 301, 247, 202, 165, 135, 111, 91, 74, 61, 50,
      41, 33, 27, 22, 18, 15, 12, 10, 8, 7, 6, 5, 4, 3, 2>>

\* np.exp(-0.2 * k)
ExpFifth(k) == IF k + 1 <= Len(ExpFifthTable) THEN Rat(ExpFifthTable[k + 1], 1000) ELSE R(0)

\* max(0.05, min(1.0, prob))
ClampProb(prob) ==
    LET lo == Rat(5, 100)
        m == IF RLt(R(1), prob) THEN R(1) ELSE prob
    IN  IF RLt(m, lo) THEN lo ELSE m

\* index (1-based) of the last value > 0, 0 when there is none
RECURSIVE LastPurchase(_, _)
LastPurchase(historico, i) ==
    IF i = 0 THEN 0
    ELSE IF historico[i] > 0 THEN i ELSE LastPurchase(historico, i - 1)

SurvivalOfSku(historico, forecast_months) ==
    LET last_purchase_idx == LastPurchase(historico, Len(historico))
        months_since_last == Len(historico) - last_purchase_idx
    IN  IF last_purchase_idx = 0 THEN Rep(Rat(1, 10), forecast_months)
        ELSE [month_ahead \in 1..forecast_months |->
                ClampProb(ExpFifth(months_since_last + month_ahead))]

\* survival_probs: a dict keyed by skuId; a later sku with the same id overwrites
compute_survival_probabilities(sales, end_date, forecast_months) ==
    LET end_idx == Index(sales.meses, end_date)
        own == Skus(sales)
        ids == {own[k].sku.skuId : k \in DOMAIN own}
        lastOf(id) == CHOOSE k \in DOMAIN own :
                         /\ own[k].sku.skuId = id
                         /\ \A j \in DOMAIN own : own[j].sku.skuId = id => j <= k
    IN  [id \in ids |->
           SurvivalOfSku(Historico(own[lastOf(id)].sku, sales.meses, end_idx), forecast_months)]

\* app/main.py apply_survival_adjustment: mutates the dicts of resultadosPorSku
AdjustSku(sku, survival_probs, forecast_months) ==
    IF sku.skuId \in DOMAIN survival_probs
    THEN LET p == survival_probs[sku.skuId]
             det == [i \in DOMAIN sku.forecast_detalle |->
                        IF i <= Min(Len(sku.forecast_detalle), forecast_months) /\ i <= Len(p)
                        THEN RMul(sku.forecast_detalle[i], p[i])
                        ELSE sku.forecast_detalle[i]]
         IN  [sku EXCEPT !.forecast_detalle = det,
                         !.forecast = IF det # <<>> THEN det[1] ELSE sku.forecast]
    ELSE sku

apply_survival_adjustment(forecast_result, survival_probs, forecast_months) ==
    [forecast_result EXCEPT !.skus =
        [k \in DOMAIN forecast_result.skus |->
            IF k \in Range(forecast_result.top)
            THEN AdjustSku(forecast_result.skus[k], survival_probs, forecast_months)
            ELSE forecast_result.skus[k]]]

(***************************************************************************)
(* app/models/ensemble_model.py                                            *)
(***************************************************************************)
\* total = sum(weights); weights = [w / total for w in weights]
NormalizeWeights(weights) == [j \in DOMAIN weights |-> RDiv(weights[j], RSum(weights))]

\* ProphetForecaster / SARIMAXForecaster / HoltWintersForecaster.__init__;
\* models is the cache self.models (the ids a fitted model is kept for)
NewForecaster(kind, seasonal_period) ==
    [kind |-> kind, seasonal_period |-> seasonal_period, models |-> {}]

\* EnsembleForecaster.__init__: only these three names get a forecaster, each
\* built with its default seasonal period; weights <<>> stands for None
Ensemble_init(models, weights) ==
    LET given == IF weights # <<>> THEN weights ELSE Rep(Rat(1, Len(models)), Len(models))
        known == Filter(models, LAMBDA m : m \in {"prophet", "sarimax", "holtwinters"})
    IN  [kind |-> "ensemble",
         model_names |-> models,
         weights |-> NormalizeWeights(given),
         forecasters |-> [j \in DOMAIN known |-> NewForecaster(known[j], 12)]]

\* the keys of sku_dict in insertion order
Distinct(ids) ==
    LET firsts == SelectSeq([i \in DOMAIN ids |-> i],
                            LAMBDA i : \A j \in 1..(i - 1) : ids[j] # ids[i])
    IN  [k \in DOMAIN firsts |-> ids[firsts[k]]]

\* resultadosPorSku of a forecast result, as dicts
TopSkus(result) == [i \in DOMAIN result.top |-> result.skus[result.top[i]]]

\* weights[j] is read for every j of sku_list: IndexError past the end
CombineRaises(sku_list, weights) ==
    \E i \in 1..Len(sku_list[1].forecast_detalle) :
        \E j \in DOMAIN sku_list :
            i <= Len(sku_list[j].forecast_detalle) /\ j > Len(weights)

\* sku.get("mape") and sku.get("mape") < 999
MapeCounts(m) == m # None /\ m # R(0) /\ RLt(m, R(MAPE_UNDEFINED))

CombineSku(sku_list, weights) ==
    LET base_sku == sku_list[1]
        forecast_details ==
            [i \in 1..Len(base_sku.forecast_detalle) |->
                RSum([j \in DOMAIN sku_list |->
                        IF i <= Len(sku_list[j].forecast_detalle)
                        THEN RMul(sku_list[j].forecast_detalle[i], weights[j])
                        ELSE R(0)])]
        mapes == SelectSeq([j \in DOMAIN sku_list |-> sku_list[j].mape], MapeCounts)
    IN  [base_sku EXCEPT
            !.forecast_detalle = forecast_details,
            !.forecast = IF forecast_details # <<>> THEN forecast_details[1] ELSE R(0),
            !.mape = IF mapes # <<>> THEN RMean(mapes) ELSE None]

\* resultados_por_cliente rebuilt from the combined skus, keyed by codigoCliente
EnsembleClientes(combined_skus) ==
    LET codes == Distinct([k \in DOMAIN combined_skus |-> combined_skus[k].codigoCliente])
    IN  [c \in DOMAIN codes |->
           LET mine == SelectSeq(combined_skus, LAMBDA x : x.codigoCliente = codes[c])
           IN  [codigoCliente |-> codes[c],
                ventasHistorico |-> RSum([j \in DOMAIN mine |-> mine[j].ultimoValor]),
                ventasForecast |-> RSum([j \in DOMAIN mine |-> mine[j].forecast]),
                skusActivos |-> CountActivo(mine)]]

\* the weights cut to the survivors and left as they are
CutWeights(weights) == weights

\* total = sum(weights); weights = [w / total for w in weights]
CombineWeights(weights) == NormalizeWeights(weights)

\* [raised |-> TRUE] when the combination raises, else the combined result

combine_forecasts(forecasts, weights0) ==
    LET weights == CombineWeights(weights0)
        base == forecasts[1]
        all == Concat([f \in DOMAIN forecasts |-> TopSkus(forecasts[f])])
        ids == Distinct([k \in DOMAIN all |-> all[k].skuId])
        sku_list(id) == SelectSeq(all, LAMBDA x : x.skuId = id)
    IN  IF \E n \in DOMAIN ids : CombineRaises(sku_list(ids[n]), weights)
        THEN [raised |-> TRUE]
        ELSE LET combined_skus == [n \in DOMAIN ids |-> CombineSku(sku_list(ids[n]), weights)]
                 clientes == EnsembleClientes(combined_skus)
             IN  [raised |-> FALSE, result |-> [
                  summary |->
                    [totalVentasHistoricas |->
                        RSum([k \in DOMAIN combined_skus |-> combined_skus[k].ultimoValor]),
                     totalForecast |->
                        RSum([k \in DOMAIN combined_skus |-> combined_skus[k].forecast]),
                     clientesActivos |-> Len(SelectSeq(clientes, LAMBDA c : c.skusActivos > 0)),
                     clientesTotales |-> Len(clientes),
                     skusActivos |-> CountActivo(combined_skus)],
                  graficoHistorico |-> base.graficoHistorico,
                  graficoForecast |->
                    [i \in DOMAIN base.graficoForecast |->
                        [base.graficoForecast[i] EXCEPT !.forecast = ForecastMes(combined_skus, i)]],
                  skus |-> combined_skus,
                  top |-> TopRefs(combined_skus),
                  resultadosPorCliente |-> SortClientes(clientes),
                  detalleClientes |-> clientes,
                  meses |-> base.meses,
                  forecastMeses |-> base.forecastMeses]]

(***************************************************************************)
(* app/utils/validation.py, app/utils/clustering.py                        *)
(***************************************************************************)
validate_data(sales, end_date) ==
    LET errors ==
            (IF sales.clientes = <<>> THEN <<"No clientes data provided">> ELSE <<>>)
         \o (IF sales.meses = <<>> THEN <<"No meses data provided">> ELSE <<>>)
         \o (IF end_date \notin Range(sales.meses) THEN <<"end_date not found in meses">> ELSE <<>>)
    IN  [valid |-> errors = <<>>, errors |-> errors]

\* cliente_ids: the customers a feature row is built for
ClusterIds(sales, end_date) ==
    LET end_idx == Index(sales.meses, end_date)
        total(ci) == [si \in DOMAIN sales.clientes[ci].skus |->
                        ISum(Historico(sales.clientes[ci].skus[si], sales.meses, end_idx))]
        keep == SelectSeq(Indices(sales.clientes),
                          LAMBDA ci : total(ci) # <<>> /\ ISum(total(ci)) # 0)
    IN  [j \in DOMAIN keep |-> sales.clientes[keep[j]].codigo]

\* labels is what KMeans answers when it is run
CustomerClusterer_fit_predict(sales, end_date, n_clusters, labels) ==
    LET cliente_ids == ClusterIds(sales, end_date)
        lastOf(c) == CHOOSE j \in DOMAIN cliente_ids :
                        /\ cliente_ids[j] = c
                        /\ \A k \in DOMAIN cliente_ids : cliente_ids[k] = c => k <= j
    IN  [c \in Range(cliente_ids) |->
            IF Len(cliente_ids) < n_clusters THEN 0 ELSE labels[lastOf(c)]]

(***************************************************************************)
(* Root service: utils/validation.py, models/clustering.py,                *)
(* models/survival.py                                                      *)
(***************************************************************************)
\* a date of mesesFecha; datetime.fromisoformat raises on anything else
ValidDate(f) == f.d >= 1

validate_sales_data(sales) ==
       (IF sales.clientes = <<>> THEN <<"No clients provided">> ELSE <<>>)
    \o (IF sales.meses = <<>> THEN <<"No months provided">> ELSE <<>>)
    \o (IF Len(sales.meses) # Len(sales.mesesFecha)
        THEN <<"Mismatch between meses and mesesFecha lengths">> ELSE <<>>)
    \o Concat([ci \in DOMAIN sales.clientes |->
                 IF sales.clientes[ci].codigo = "" THEN <<"Client missing codigo">> ELSE <<>>])
    \o (IF \E i \in DOMAIN FirstK(sales.mesesFecha, 5) : ~ValidDate(sales.mesesFecha[i])
        THEN <<"Invalid date format in mesesFecha">> ELSE <<>>)

\* client_ids of ClientClusterer.fit_predict: customers with at least one
\* ventasMes entry in any sku (all months, not only those up to the cutoff)
ClientIds(sales) ==
    LET keep == SelectSeq(Indices(sales.clientes),
                    LAMBDA ci : \E si \in DOMAIN sales.clientes[ci].skus :
                                    DOMAIN sales.clientes[ci].skus[si].ventasMes # {})
    IN  [j \in DOMAIN keep |-> sales.clientes[keep[j]].codigo]

\* the keys of a ventasMes dict in the order the request lists them (by month)
KeysInOrder(f) ==
    [i \in 1..Cardinality(DOMAIN f) |->
        CHOOSE k \in DOMAIN f : Cardinality({j \in DOMAIN f : j < k}) = i - 1]

\* total_sales of one customer: every month of every sku's ventasMes, summed
\* over the skus; ventas = list(total_sales.values())
ClientVentas(cliente) ==
    LET months == Distinct(Concat([si \in DOMAIN cliente.skus |->
                                     KeysInOrder(cliente.skus[si].ventasMes)]))
    IN  [i \in DOMAIN months |->
           ISum([si \in DOMAIN cliente.skus |-> Get(cliente.skus[si].ventasMes, months[i])])]

\* the series the features of fit_predict are extracted from, one per customer
\* with at least one month
ClientSeries(sales) ==
    LET all == [ci \in DOMAIN sales.clientes |-> ClientVentas(sales.clientes[ci])]
    IN  SelectSeq(all, LAMBDA ventas : ventas # <<>>)

\* n_clusters handed to KMeans; 0 stands for the default "auto"
KMeansClusters(n_clusters, n_features) ==
    IF n_clusters = 0 THEN Min(5, Max(2, n_features \div 10)) ELSE n_clusters

\* [raised |-> TRUE] when KMeans refuses (n_samples < n_clusters), else the labels
ClientClusterer_fit_predict(sales, n_clusters, labels) ==
    LET client_ids == ClientIds(sales)
    IN  IF Len(client_ids) < 2 THEN [raised |-> FALSE, labels |-> Rep(0, Len(client_ids))]
        ELSE IF Len(client_ids) < KMeansClusters(n_clusters, Len(client_ids))
             THEN [raised |-> TRUE]
             ELSE [raised |-> FALSE, labels |-> labels]

\* round(1000 * exp(-k / 3)) for k = 0..30
ExpThirdTable ==
    <<1000, 717, 513, 368, 264, 189, 135, 97, 69, 50, 36, 26, 18, 13, 9, 7,
      5, 3, 2, 2, 1, 1, 1, 0, 0, 0, 0, 0, 0, 0, 0>>

\* np.exp(-months_inactive / 3.0)
ExpThird(k) == IF k + 1 <= Len(ExpThirdTable) THEN Rat(ExpThirdTable[k + 1], 1000) ELSE R(0)

\* the last month (1-based, up to the cutoff) any sku of the customer sold, 0 if none
RECURSIVE LastActive(_, _, _)
LastActive(cliente, meses, i) ==
    IF i = 0 THEN 0
    ELSE IF \E si \in DOMAIN cliente.skus : Get(cliente.skus[si].ventasMes, meses[i]) > 0
         THEN i ELSE LastActive(cliente, meses, i - 1)

\* range(end_date_idx, max(0, end_date_idx - 6), -1): months without a sale
RECURSIVE MonthsWithoutSale(_, _, _, _)
MonthsWithoutSale(cliente, meses, i, stop) ==
    IF i <= stop THEN 0
    ELSE IF \E si \in DOMAIN cliente.skus : Get(cliente.skus[si].ventasMes, meses[i]) > 0
         THEN 0 ELSE 1 + MonthsWithoutSale(cliente, meses, i - 1, stop)

\* _simple_churn_prediction, per customer; positions are 1-based here, the
\* code's range stops above max(0, end_date_idx - 6) in 0-based positions
simple_churn(cliente, meses, end_date_idx) ==
    LET months_without_sale ==
            MonthsWithoutSale(cliente, meses, end_date_idx, Max(0, end_date_idx - 1 - 6) + 1)
        prob == Rat(6 - months_without_sale, 6)
    IN  IF RLt(prob, R(0)) THEN R(0) ELSE prob

LastOfCode(sales, c) ==
    CHOOSE ci \in DOMAIN sales.clientes :
        /\ sales.clientes[ci].codigo = c
        /\ \A cj \in DOMAIN sales.clientes : sales.clientes[cj].codigo = c => cj <= ci

\* continuity_probs: a dict keyed by cliente.codigo
predict_continuity(sales, end_date, lifelines) ==
    LET end_date_idx == Index(sales.meses, end_date)
        codes == {sales.clientes[ci].codigo : ci \in DOMAIN sales.clientes}
    IN  [c \in codes |->
           LET cliente == sales.clientes[LastOfCode(sales, c)]
               last_active_idx == LastActive(cliente, sales.meses, end_date_idx)
           IN  IF lifelines
               THEN (IF last_active_idx = 0 THEN R(0)
                     ELSE ExpThird(end_date_idx - last_active_idx))
               ELSE simple_churn(cliente, sales.meses, end_date_idx)]

(***************************************************************************)
(* Root service: models/forecaster.py, AdvancedForecaster.                  *)
(* A strategy returns one intermediate result per sku:                      *)
(*   [codigoCliente, skuId, forecast, mape, estado, ultimo_valor]           *)
(* where codigoCliente is the sku's own field, not the owning record's.     *)
(* o is the library's answer for the sku: [raises, raw, mape, pred].        *)
(***************************************************************************)
\* _prepare_historical_data: data["skus"], with ventas up to the cutoff
prepare_historical_data(sales, end_date_idx) ==
    LET own == Skus(sales)
    IN  [k \in DOMAIN own |->
           [skuId |-> own[k].sku.skuId,
            codigoCliente |-> own[k].sku.codigoCliente,
            ventas |-> Historico(own[k].sku, sales.meses, end_date_idx)]]

LastOf(ventas) == IF ventas = <<>> THEN 0 ELSE ventas[Len(ventas)]

\* [max(0, x)] * forecast_horizon
RepMax0(x, horizon) == Rep(IF RLt(x, R(0)) THEN R(0) ELSE x, horizon)

Entity(sku, forecast, mape, estado) ==
    [codigoCliente |-> sku.codigoCliente, skuId |-> sku.skuId, forecast |-> forecast,
     mape |-> mape, estado |-> estado, ultimo_valor |-> R(LastOf(sku.ventas))]

\* np.mean([abs((a - p) / a) if a > 0 else 0 for a, p in zip(actuals, preds)]) * 100
InSampleMape(ventas, pred) ==
    LET test_size == Min(3, Len(ventas) - 1)
        actuals == LastK(ventas, test_size)
    IN  IF Len(ventas) < 3 THEN R(MAPE_UNDEFINED)
        ELSE IF test_size = 0 THEN R(MAPE_UNDEFINED)
        ELSE RMul(RMean([i \in DOMAIN actuals |->
                            IF actuals[i] > 0 THEN Rat(Abs(actuals[i] - pred), actuals[i])
                            ELSE R(0)]),
                  R(100))

forecast_prophet_sku(sku, horizon, o) ==
    IF Len(Positives(sku.ventas)) < 3
    THEN Entity(sku, RepMax0(RMul(R(LastOf(sku.ventas)), Rat(9, 10)), horizon),
                R(MAPE_UNDEFINED), "sin_datos_suficientes")
    ELSE IF o.raises
         THEN Entity(sku, RepMax0(RMul(R(LastOf(sku.ventas)), Rat(9, 10)), horizon),
                     R(MAPE_UNDEFINED), "prophet_fallback")
         ELSE Entity(sku, Clamp(o.raw), InSampleMape(sku.ventas, o.pred), "activo")

forecast_holtwinters_sku(sku, horizon, o) ==
    IF Len(Positives(sku.ventas)) < 12
    THEN Entity(sku, RepMax0(R(LastOf(sku.ventas)), horizon), R(MAPE_UNDEFINED),
                "sin_datos_suficientes")
    ELSE IF o.raises
         THEN Entity(sku, RepMax0(R(LastOf(sku.ventas)), horizon), R(MAPE_UNDEFINED),
                     "hw_fallback")
         ELSE Entity(sku, Clamp(o.raw), R(50), "activo")

forecast_sarimax_sku(sku, horizon, o) ==
    IF Len(Positives(sku.ventas)) < 12
    THEN Entity(sku, RepMax0(R(LastOf(sku.ventas)), horizon), R(MAPE_UNDEFINED),
                "sin_datos_suficientes")
    ELSE IF o.raises
         THEN Entity(sku, RepMax0(R(LastOf(sku.ventas)), horizon), R(MAPE_UNDEFINED),
                     "sarimax_fallback")
         ELSE Entity(sku, Clamp(o.raw), R(50), "activo")

forecast_ml_cluster_sku(sku, horizon, o) ==
    IF Len(Positives(sku.ventas)) < 6
    THEN Entity(sku, RepMax0(RMul(R(LastOf(sku.ventas)), Rat(9, 10)), horizon),
                R(MAPE_UNDEFINED), "sin_datos_suficientes")
    ELSE IF o.raises \/ Len(sku.ventas) - 3 < 3
         THEN Entity(sku, RepMax0(R(LastOf(sku.ventas)), horizon), R(MAPE_UNDEFINED),
                     "ml_fallback")
         ELSE Entity(sku, Clamp(o.raw), R(50), "activo")

forecast_v0_sku(sku, horizon) ==
    LET pos == Positives(sku.ventas)
    IN  IF Len(pos) < 2
        THEN Entity(sku, Zeros(horizon), R(MAPE_UNDEFINED), "cerrado")
        ELSE LET avg == RMean(Map1(pos, R))
                 last == R(LastOf(sku.ventas))
             IN  Entity(sku, RepMax0(RAdd(RMul(last, Rat(95, 100)), RMul(avg, Rat(5, 100))),
                                     horizon),
                        R(60), "activo")

\* FeatureEngineer.build_features divides by ventas[idx-3] + 1 and ventas[idx-2] + 1
\* for idx = 12 .. len-1 (0-based): ZeroDivisionError when such a value is -1
build_features_raises(skus) ==
    \E k \in DOMAIN skus :
        /\ Len(skus[k].ventas) >= 13
        /\ \E idx \in 12..(Len(skus[k].ventas) - 1) :
              skus[k].ventas[idx - 3 + 1] = -1 \/ skus[k].ventas[idx - 2 + 1] = -1

\* a warning of the response; n carries the number a message embeds
Warning(kind, n) == [kind |-> kind, n |-> n]

forecast_v0(skus, horizon, warnings) ==
    [raised |-> FALSE, model_used |-> "v0_baseline",
     results |-> [k \in DOMAIN skus |-> forecast_v0_sku(skus[k], horizon)],
     warnings |-> warnings]

\* each strategy imports its library first; ImportError appends a warning to
\* self.warnings and answers with the v0 baseline
forecast_prophet(skus, horizon, installed, warnings, fit) ==
    IF "prophet" \in installed
    THEN [raised |-> FALSE, model_used |-> "prophet",
          results |-> [k \in DOMAIN skus |-> forecast_prophet_sku(skus[k], horizon, fit[k])],
          warnings |-> warnings]
    ELSE forecast_v0(skus, horizon, Append(warnings, Warning("prophet_unavailable", 0)))

forecast_holtwinters(skus, horizon, installed, warnings, fit) ==
    IF "statsmodels" \in installed
    THEN [raised |-> FALSE, model_used |-> "holtwinters",
          results |-> [k \in DOMAIN skus |-> forecast_holtwinters_sku(skus[k], horizon, fit[k])],
          warnings |-> warnings]
    ELSE forecast_v0(skus, horizon, Append(warnings, Warning("holtwinters_unavailable", 0)))

forecast_sarimax(skus, horizon, installed, warnings, fit) ==
    IF "statsmodels" \in installed
    THEN [raised |-> FALSE, model_used |-> "sarimax",
          results |-> [k \in DOMAIN skus |-> forecast_sarimax_sku(skus[k], horizon, fit[k])],
          warnings |-> warnings]
    ELSE forecast_v0(skus, horizon, Append(warnings, Warning("sarimax_unavailable", 0)))

forecast_ml_cluster(skus, horizon, installed, warnings, fit) ==
    IF "xgboost" \in installed
    THEN IF build_features_raises(skus)
         THEN [raised |-> TRUE, detail |-> "float division by zero"]
         ELSE [raised |-> FALSE, model_used |-> "ml_cluster_xgboost",
               results |-> [k \in DOMAIN skus |->
                              forecast_ml_cluster_sku(skus[k], horizon, fit[k])],
               warnings |-> warnings]
    ELSE forecast_v0(skus, horizon, Append(warnings, Warning("xgboost_unavailable", 0)))

\* zip(prophet_fc, hw_fc, ml_fc) with weights 0.4 / 0.3 / 0.3
EnsembleFc(prophet_fc, hw_fc, ml_fc) ==
    [i \in 1..Min(Len(prophet_fc), Min(Len(hw_fc), Len(ml_fc))) |->
        RAdd(RMul(Rat(4, 10), prophet_fc[i]),
             RAdd(RMul(Rat(3, 10), hw_fc[i]), RMul(Rat(3, 10), ml_fc[i])))]

\* the weighted combination of the three strategies' results
ensemble_results(skus, prophet_results, hw_results, ml_results) ==
    IF ml_results.raised THEN ml_results
    ELSE [raised |-> FALSE, model_used |-> "ensemble(prophet+hw+ml)",
          results |-> [k \in DOMAIN skus |->
              Entity(skus[k],
                     EnsembleFc(prophet_results.results[k].forecast,
                                hw_results.results[k].forecast,
                                ml_results.results[k].forecast),
                     R(40), "activo")],
          warnings |-> ml_results.warnings]

ensemble_after_hw(skus, horizon, installed, fits, prophet_results, hw_results) ==
    ensemble_results(skus, prophet_results, hw_results,
                     forecast_ml_cluster(skus, horizon, installed, hw_results.warnings,
                                         fits.ml))

ensemble_after_prophet(skus, horizon, installed, fits, prophet_results) ==
    ensemble_after_hw(skus, horizon, installed, fits, prophet_results,
                      forecast_holtwinters(skus, horizon, installed,
                                           prophet_results.warnings, fits.holtwinters))

\* fits = [prophet, holtwinters, ml]: the libraries' answers per strategy; the
\* strategies run in turn, each on the warnings the one before left
forecast_ensemble(skus, horizon, installed, warnings, fits) ==
    ensemble_after_prophet(skus, horizon, installed, fits,
                           forecast_prophet(skus, horizon, installed, warnings, fits.prophet))

\* AdvancedForecaster._apply_survival_adjustment: one probability per customer code
Advanced_apply_survival_adjustment(results, survival_probs) ==
    [k \in DOMAIN results |->
        LET cliente_id == results[k].codigoCliente
            prob == IF cliente_id \in DOMAIN survival_probs
                    THEN survival_probs[cliente_id] ELSE R(1)
        IN  [results[k] EXCEPT
                !.forecast = [i \in DOMAIN results[k].forecast |->
                                 RMul(results[k].forecast[i], prob)]]]

\* clientes_map of _build_response, keyed by the skus' codigoCliente
ClientesMap(results) ==
    LET codes == Distinct([k \in DOMAIN results |-> results[k].codigoCliente])
    IN  [c \in DOMAIN codes |->
           LET mine == SelectSeq(results, LAMBDA r : r.codigoCliente = codes[c])
           IN  [codigoCliente |-> codes[c],
                ventasHistorico |-> RSum([j \in DOMAIN mine |-> mine[j].ultimo_valor]),
                ventasForecast |-> RSum([j \in DOMAIN mine |->
                                           IF mine[j].forecast # <<>>
                                           THEN mine[j].forecast[1] ELSE R(0)]),
                skusActivos |-> CountActivo(mine)]]

\* grafico_historico of _build_response, over historical_data["meses"]
Advanced_grafico_historico(skus, meses, end_date_idx) ==
    [i \in 1..end_date_idx |->
        [mes |-> meses[i],
         ventas |-> RSum([k \in DOMAIN skus |->
                            IF i <= Len(skus[k].ventas) THEN R(skus[k].ventas[i]) ELSE R(0)])]]

\* resultados_por_sku of _build_response
ResultadosPorSku(results) ==
    [k \in DOMAIN results |->
       [codigoCliente |-> results[k].codigoCliente,
        skuId |-> results[k].skuId,
        ultimoValor |-> results[k].ultimo_valor,
        forecast |-> IF results[k].forecast # <<>> THEN results[k].forecast[1] ELSE R(0),
        estado |-> results[k].estado,
        mape |-> IF RLt(results[k].mape, R(MAPE_UNDEFINED)) THEN results[k].mape ELSE None,
        forecast_detalle |-> results[k].forecast]]

\* the response dict built from the two result lists
response_dict(strategy, resultados_por_cliente, resultados_por_sku, skus, meses, end_date_idx, horizon) ==
    [model_used |-> strategy.model_used,
     warnings |-> strategy.warnings,
     summary |->
       [totalVentasHistoricas |->
            RSum([c \in DOMAIN resultados_por_cliente |->
                    resultados_por_cliente[c].ventasHistorico]),
        totalForecast |->
            RSum([c \in DOMAIN resultados_por_cliente |->
                    resultados_por_cliente[c].ventasForecast]),
        clientesActivos |->
            Len(SelectSeq(resultados_por_cliente, LAMBDA c : c.skusActivos > 0)),
        clientesTotales |-> Len(resultados_por_cliente),
        skusActivos |-> ISum([c \in DOMAIN resultados_por_cliente |->
                                resultados_por_cliente[c].skusActivos])],
     graficoHistorico |-> Advanced_grafico_historico(skus, meses, end_date_idx),
     graficoForecast |-> GraficoForecast(resultados_por_sku, horizon),
     skus |-> resultados_por_sku,
     top |-> TopRefs(resultados_por_sku),
     resultadosPorCliente |-> SortClientes(resultados_por_cliente),
     detalleClientes |-> resultados_por_cliente,
     meses |-> FirstK(meses, end_date_idx)]

build_response(strategy, skus, meses, end_date_idx, horizon) ==
    response_dict(strategy, ClientesMap(strategy.results), ResultadosPorSku(strategy.results),
                  skus, meses, end_date_idx, horizon)

\* the strategy forecast() picks for self.model_type
run_strategy(self, skus, installed, fits) ==
    CASE self.model_type = "prophet" ->
            forecast_prophet(skus, self.forecast_horizon, installed, self.warnings,
                             fits.prophet)
      [] self.model_type = "holtwinters" ->
            forecast_holtwinters(skus, self.forecast_horizon, installed, self.warnings,
                                 fits.holtwinters)
      [] self.model_type = "sarimax" ->
            forecast_sarimax(skus, self.forecast_horizon, installed, self.warnings,
                             fits.sarimax)
      [] self.model_type = "ml_cluster" ->
            forecast_ml_cluster(skus, self.forecast_horizon, installed, self.warnings,
                                fits.ml)
      [] self.model_type = "ensemble" ->
            forecast_ensemble(skus, self.forecast_horizon, installed, self.warnings, fits)
      [] OTHER -> forecast_v0(skus, self.forecast_horizon, self.warnings)

\* if survival_probs: results = self._apply_survival_adjustment(...)
adjust_strategy(strategy, survival_probs) ==
    IF DOMAIN survival_probs # {}
    THEN [strategy EXCEPT !.results =
             Advanced_apply_survival_adjustment(strategy.results, survival_probs)]
    ELSE strategy

\* the rest of forecast() once the strategy has answered
finish_forecast(strategy, skus, meses, end_date_idx, horizon, survival_probs) ==
    IF strategy.raised THEN strategy
    ELSE [raised |-> FALSE,
          response |-> build_response(adjust_strategy(strategy, survival_probs), skus, meses,
                                      end_date_idx, horizon)]

forecast_on(self, skus, meses, end_date_idx, survival_probs, installed, fits) ==
    finish_forecast(run_strategy(self, skus, installed, fits), skus, meses, end_date_idx,
                    self.forecast_horizon, survival_probs)

\* current = (current + timedelta(days=32)).replace(day=1), once per period
RECURSIVE FirstOfMonthsFrom(_, _)
FirstOfMonthsFrom(current, periods) ==
    IF periods = 0 THEN <<>>
    ELSE <<YearMonth(current)>>
         \o FirstOfMonthsFrom([AddDays(current, 32) EXCEPT !.d = 1], periods - 1)

\* current = last_date + timedelta(days=32); current = current.replace(day=1)
generate_forecast_dates(last_date, periods) ==
    FirstOfMonthsFrom([AddDays(last_date, 32) EXCEPT !.d = 1], periods)

\* forecast_meses goes into the response dict
with_forecast_meses(out, months) ==
    IF out.raised THEN out
    ELSE [raised |-> FALSE, response |-> out.response @@ [forecastMeses |-> months]]

\* AdvancedForecaster.forecast; self = [model_type, forecast_horizon, warnings]
Advanced_forecast(self, sales, end_date, survival_probs, installed, fits) ==
    IF \E i \in DOMAIN sales.mesesFecha : ~ValidDate(sales.mesesFecha[i])
    THEN [raised |-> TRUE, detail |-> "Invalid isoformat string"]
    ELSE IF end_date \notin Range(sales.meses)
    THEN [raised |-> TRUE, detail |-> "is not in list"]
    ELSE IF Len(sales.mesesFecha) < Index(sales.meses, end_date)
    THEN [raised |-> TRUE, detail |-> "list index out of range"]
    ELSE with_forecast_meses(
             forecast_on(self, prepare_historical_data(sales, Index(sales.meses, end_date)),
                         sales.meses, Index(sales.meses, end_date), survival_probs, installed,
                         fits),
             generate_forecast_dates(sales.mesesFecha[Index(sales.meses, end_date)],
                                     self.forecast_horizon))

(***************************************************************************)
(* app: the forecaster objects and forecaster.forecast as a whole           *)
(***************************************************************************)
\* what raises in forecast() before any entity is looked at: pd.to_datetime
\* on a bad date, meses.index(end_date), meses_fecha[end_idx]
ForecasterRaises(sales, end_date) ==
    \/ \E i \in DOMAIN sales.mesesFecha : ~ValidDate(sales.mesesFecha[i])
    \/ end_date \notin Range(sales.meses)
    \/ Len(sales.mesesFecha) < Index(sales.meses, end_date)

\* the per-entity step of the forecaster fc
ForecasterSku(fc, historico, forecast_months, o) ==
    CASE fc.kind = "prophet" ->
            Prophet_sku(historico, forecast_months, fc.seasonal_period, o)
      [] fc.kind = "holtwinters" ->
            HoltWinters_sku(historico, forecast_months, fc.seasonal_period, o)
      [] fc.kind = "sarimax" -> SARIMAX_sku(historico, forecast_months, o)

\* skuIds whose fitted model the forecaster keeps after the run
FittedIds(fc, sales, forecast_months, end_date, fit) ==
    LET end_idx == Index(sales.meses, end_date)
        own == Skus(sales)
    IN  {own[k].sku.skuId : k \in
           {k \in DOMAIN own :
              ForecasterSku(fc, Historico(own[k].sku, sales.meses, end_idx),
                            forecast_months, fit[k]).fitted}}

\* forecast() without the try/except around each entity's fit: the first fit
\* that raises ends the run
Unguarded_forecast(fc, sales, forecast_months, end_date, fit, fault) ==
    IF fault \/ ForecasterRaises(sales, end_date) \/ \E k \in DOMAIN fit : fit[k].raises
    THEN [raised |-> TRUE, detail |-> <<"fit failed">>]
    ELSE [raised |-> FALSE,
          result |->
            CASE fc.kind = "prophet" ->
                    Prophet_forecast(sales, forecast_months, end_date, fc.seasonal_period, fit)
              [] fc.kind = "holtwinters" ->
                    HoltWinters_forecast(sales, forecast_months, end_date,
                                         fc.seasonal_period, fit)
              [] fc.kind = "sarimax" ->
                    SARIMAX_forecast(sales, forecast_months, end_date, fit),
          forecaster |->
            [fc EXCEPT !.models = @ \cup FittedIds(fc, sales, forecast_months, end_date, fit)]]

\* forecaster.forecast(enriched_data, forecast_months, end_date, cv_folds);
\* fault: the run fails as a whole for a reason outside the data
Forecaster_forecast(fc, sales, forecast_months, end_date, fit, fault) ==
    IF fault THEN [raised |-> TRUE, detail |-> <<"forecaster failed">>]
    ELSE IF ForecasterRaises(sales, end_date)
    THEN [raised |-> TRUE, detail |-> <<"bad dates or cutoff">>]
    ELSE [raised |-> FALSE,
          result |->
            CASE fc.kind = "prophet" ->
                    Prophet_forecast(sales, forecast_months, end_date, fc.seasonal_period, fit)
              [] fc.kind = "holtwinters" ->
                    HoltWinters_forecast(sales, forecast_months, end_date,
                                         fc.seasonal_period, fit)
              [] fc.kind = "sarimax" ->
                    SARIMAX_forecast(sales, forecast_months, end_date, fit),
          forecaster |->
            [fc EXCEPT !.models = @ \cup FittedIds(fc, sales, forecast_months, end_date, fit)]]

(***************************************************************************)
(* What the numerical libraries answer.  An outcome is                      *)
(*   [raises, raw, cv_raises, pred]                                         *)
(* raises: fit/predict raised; raw: the predicted values before clamping;   *)
(* cv_raises: the fit on the train part of the holdout raised; pred: the    *)
(* prediction over the last periods of the history (holdout, in-sample).    *)
(* Only answers that lead to different results for the dataset at hand are  *)
(* told apart.                                                              *)
(***************************************************************************)
Outcome(raises, raw, cv_raises, pred) ==
    [raises |-> raises, raw |-> raw, cv_raises |-> cv_raises, pred |-> pred]

OutcomeSeq(h) ==
    <<Outcome(TRUE, <<>>, TRUE, 0),
      Outcome(FALSE, Rep(-3, h), FALSE, 6),
      Outcome(FALSE, Rep(9, h), FALSE, 6),
      Outcome(FALSE, Rep(9, h), FALSE, 9),
      Outcome(FALSE, Rep(9, h), TRUE, 9)>>

\* how a library behaves over the skus of a dataset: the same outcome for all
\* of them, or a failure for the first sku and that outcome for the others
Patterns(n, h, outcomes, mixed) ==
    LET os == OutcomeSeq(h)
    IN  [i \in DOMAIN outcomes |-> Rep(os[outcomes[i]], n)]
        \o (IF mixed /\ n >= 2
            THEN [i \in DOMAIN outcomes |-> <<os[1]>> \o Rep(os[outcomes[i]], n - 1)]
            ELSE <<>>)

\* the patterns that can be told apart through the observation Obs
CanonicalPatterns(Obs(_), ps) ==
    {ps[i] : i \in {i \in DOMAIN ps : \A j \in 1..(i - 1) : Obs(ps[j]) # Obs(ps[i])}}

\* the answers an app forecaster can get for the dataset, one per sku
FitChoices(fc, sales, forecast_months, end_date, outcomes, mixed) ==
    IF ForecasterRaises(sales, end_date) THEN {<<>>}
    ELSE LET end_idx == Index(sales.meses, end_date)
             own == Skus(sales)
             hist == [k \in DOMAIN own |-> Historico(own[k].sku, sales.meses, end_idx)]
         IN  CanonicalPatterns(
                 LAMBDA fit : [k \in DOMAIN own |->
                                 ForecasterSku(fc, hist[k], forecast_months, fit[k])],
                 Patterns(Len(own), forecast_months, outcomes, mixed))

\* the answers a root strategy can get, one per sku
StrategySku(name, sku, horizon, o) ==
    CASE name = "prophet" -> forecast_prophet_sku(sku, horizon, o)
      [] name = "holtwinters" -> forecast_holtwinters_sku(sku, horizon, o)
      [] name = "sarimax" -> forecast_sarimax_sku(sku, horizon, o)
      [] name = "ml" -> forecast_ml_cluster_sku(sku, horizon, o)

StrategyChoices(name, sales, horizon, end_date, outcomes, mixed) ==
    IF end_date \notin Range(sales.meses) THEN {<<>>}
    ELSE IF \E i \in DOMAIN sales.mesesFecha : ~ValidDate(sales.mesesFecha[i]) THEN {<<>>}
    ELSE IF Len(sales.mesesFecha) < Index(sales.meses, end_date) THEN {<<>>}
    ELSE LET skus == prepare_historical_data(sales, Index(sales.meses, end_date))
         IN  CanonicalPatterns(
                 LAMBDA fit : [k \in DOMAIN skus |-> StrategySku(name, skus[k], horizon, fit[k])],
                 Patterns(Len(skus), horizon, outcomes, mixed))

\* the strategies AdvancedForecaster consults for a model type
StrategiesOf(model_type) ==
    CASE model_type = "prophet" -> {"prophet"}
      [] model_type = "holtwinters" -> {"holtwinters"}
      [] model_type = "sarimax" -> {"sarimax"}
      [] model_type = "ml_cluster" -> {"ml"}
      [] model_type = "ensemble" -> {"prophet", "holtwinters", "ml"}
      [] OTHER -> {}

\* KMeans labels for n samples and k clusters: one cluster, or round robin
LabelChoices(n, k) == {Rep(0, n), [i \in 1..n |-> (i - 1) % Max(k, 1)]}

\* KMeans(n_clusters=k, random_state=42).fit_predict over the customers'
\* features: samples that are all alike end in one cluster
KMeansLabels(series, k) ==
    IF \A i, j \in DOMAIN series : series[i] = series[j]
    THEN {Rep(0, Len(series))}
    ELSE LabelChoices(Len(series), k)

(***************************************************************************)
(* Requests.  Months are labelled 1, 2, ...; label 0 is a month no dataset  *)
(* has.  A date is [y, m, d]; d = 0 stands for a string that is not a date. *)
(***************************************************************************)
MaxH == 2

MaxShort == 3

Values == {-6, 0, 6}

GoodDates(n) == [i \in 1..n |-> [y |-> 2023 + (i - 1) \div 12, m |-> ((i - 1) % 12) + 1, d |-> 1]]

Sku(skuId, codigoCliente, ventasMes) ==
    [skuId |-> skuId, codigoCliente |-> codigoCliente, ventasMes |-> ventasMes]

Cliente(codigo, skus) == [codigo |-> codigo, skus |-> skus]

SalesData(clientes, n) ==
    [clientes |-> clientes, meses |-> [i \in 1..n |-> i], mesesFecha |-> GoodDates(n)]

\* one customer with one sku whose series is vals
One(vals) == SalesData(<<Cliente("A", <<Sku("s1", "A", vals)>>)>>, Len(vals))

ShortData == {One(v) : v \in UNION {[1..n -> Values] : n \in 1..MaxShort}}

MidData == {One(Rep(f, 3) \o t) : f \in {0, 12}, t \in [1..3 -> Values]}

LongData == {One(Rep(12, 21) \o t) : t \in {<<6, 6, 6>>, <<0, 0, 0>>, <<6, 0, 0>>}}

\* series with months missing from ventasMes
SparseData ==
    {SalesData(<<Cliente("A", <<Sku("s1", "A", [m \in {2, 3} |-> 6])>>)>>, 3),
     SalesData(<<Cliente("A", <<Sku("s1", "A", [m \in {1, 4, 5, 6} |-> 6])>>)>>, 6)}

Strong == Rep(12, 6)

Fading == <<12, 12, 12, 0, 0, 0>>

Weak == <<0, 0, 0, 0, 0, 6>>

Steady == Rep(6, 6)

\* several customers and skus: shared codes, shared ids, a customer without skus
MultiData ==
    {SalesData(<<Cliente("A", <<Sku("s1", "A", Strong)>>),
                 Cliente("B", <<Sku("s2", "B", Fading)>>)>>, 6),
     SalesData(<<Cliente("A", <<Sku("s1", "A", Weak), Sku("s2", "A", Strong)>>)>>, 6),
     SalesData(<<Cliente("A", <<>>), Cliente("B", <<Sku("s1", "B", Strong)>>)>>, 6),
     SalesData(<<Cliente("A", <<Sku("s1", "A", Strong)>>),
                 Cliente("A", <<Sku("s2", "A", Steady)>>)>>, 6),
     SalesData(<<Cliente("A", <<Sku("s1", "A", Strong)>>),
                 Cliente("B", <<Sku("s1", "B", Steady)>>)>>, 6),
     SalesData(<<Cliente("A", <<Sku("s1", "B", Strong)>>),
                 Cliente("B", <<Sku("s2", "B", Weak)>>)>>, 6),
     SalesData(<<Cliente("A", <<Sku("s1", "A", Steady)>>),
                 Cliente("B", <<Sku("s2", "B", Strong)>>),
                 Cliente("C", <<Sku("s3", "C", Fading)>>)>>, 6),
     SalesData(<<Cliente("A", <<Sku("s1", "A", Rep(6, 24))>>),
                 Cliente("B", <<Sku("s2", "B", Rep(12, 24))>>)>>, 24)}

Lapsing == <<12, 12, 12, 12, 6, 0>>

WideIds ==
    <<"w01", "w02", "w03", "w04", "w05", "w06", "w07", "w08", "w09", "w10", "w11",
      "w12", "w13", "w14", "w15", "w16", "w17", "w18", "w19", "w20", "w21">>

\* one entity more than the top list holds, the first of them closed, over two
\* customers
WideData ==
    SalesData(<<Cliente("A", [k \in 1..11 |->
                                Sku(WideIds[k], "A", IF k = 1 THEN Fading ELSE Steady)]),
                Cliente("B", [k \in 1..(TopN - 10) |-> Sku(WideIds[11 + k], "B", Steady)])>>, 6)

\* customers whose entities stopped buying at different times, or never bought
RecencyData ==
    SalesData(<<Cliente("A", <<Sku("s1", "A", Lapsing)>>),
                Cliente("B", <<Sku("s2", "B", Steady)>>),
                Cliente("C", <<Sku("s3", "C", Rep(0, 6))>>)>>, 6)

Slowing == <<6, 6, 6, 3, 3, 3>>

\* one entity more than the top list holds, the first of them selling less
\* than it used to: the strategies rank it differently
SplitData ==
    SalesData(<<Cliente("A", [k \in 1..11 |->
                                Sku(WideIds[k], "A", IF k = 1 THEN Slowing ELSE Steady)]),
                Cliente("B", [k \in 1..(TopN - 10) |-> Sku(WideIds[11 + k], "B", Steady)])>>, 6)

\* the days of the month a dataset's dates may fall on (the last day of the
\* month where the month is shorter)
CutoffDays == {1, 15, 28, 31}

\* a year of months whose dates fall on the given day
DatedData(day) ==
    [One(Rep(6, 12)) EXCEPT
        !.mesesFecha = [i \in 1..12 |->
                           [GoodDates(12)[i] EXCEPT
                               !.d = Min(day, DaysIn(GoodDates(12)[i].y, GoodDates(12)[i].m))]]]

\* datasets a validator should refuse, or whose dates cannot be parsed
BadData ==
    {SalesData(<<>>, 3),
     [clientes |-> <<Cliente("A", <<Sku("s1", "A", Steady)>>)>>, meses |-> <<>>,
      mesesFecha |-> <<>>],
     [One(Steady) EXCEPT !.mesesFecha = GoodDates(5)],
     SalesData(<<Cliente("", <<Sku("s1", "", Steady)>>)>>, 6),
     [One(Steady) EXCEPT !.mesesFecha[1].d = 0],
     [One(Steady) EXCEPT !.mesesFecha[6].d = 0]}

LastMonth(sales) == IF sales.meses = <<>> THEN 0 ELSE sales.meses[Len(sales.meses)]

Options(n_clusters, seasonal_period, survival) ==
    [n_clusters |-> n_clusters, seasonal_period |-> seasonal_period, survival |-> survival,
     null |-> FALSE]

AllLibs == {"prophet", "statsmodels", "xgboost", "lifelines"}

Components == {"prophet", "sarimax", "holtwinters"}

\* a request together with the environment it meets: the libraries installed
\* (root service), the forecasters that fail as a whole (app service), the
\* outcomes the libraries may give (positions in OutcomeSeq), whether the
\* client sends the request a second time
Scenario(entry, sales, endDate, h, model, options, installed, faults) ==
    [req |-> [entry |-> entry, sales |-> sales, endDate |-> endDate, forecastMonths |-> h,
              model |-> model, options |-> options,
              models |-> <<>>, weights |-> <<>>],
     env |-> [installed |-> installed, faults |-> faults, outcomes |-> <<1, 2, 3, 4, 5>>,
              mixed |-> FALSE, repeat |-> FALSE]]

\* the scenarios of S with another range of library behaviour
With(S, outcomes, mixed, repeat) ==
    {[s EXCEPT !.env.outcomes = outcomes, !.env.mixed = mixed, !.env.repeat = repeat] :
        s \in S}

SingleData == ShortData \cup MidData \cup LongData \cup SparseData

\* the mid-length series with a strong start
StrongMid == {One(Rep(12, 3) \o t) : t \in [1..3 -> Values]}

Horizons == 1..MaxH

\* app service: one series, prophet and holtwinters, options switched off
AppSingle ==
    {Scenario("app", d, LastMonth(d), MaxH, m, Options(0, 12, FALSE), AllLibs, {}) :
        d \in SingleData, m \in {"prophet", "holtwinters"}}

\* app service: a short season, clustering and survival switched on
AppSeasonal ==
         {Scenario("app", d, LastMonth(d), MaxH, m, Options(5, 2, TRUE), AllLibs, {}) :
            d \in StrongMid \cup LongData, m \in {"prophet", "holtwinters"}}
    \cup {Scenario("app", d, LastMonth(d), h, "sarimax", Options(5, 12, sv), AllLibs, {}) :
            d \in LongData \cup {One(Steady), One(<<0, 6, 0>>)}, h \in Horizons,
            sv \in BOOLEAN}

\* app service: a cutoff before the last month of the dataset
AppCutoff ==
    {Scenario("app", d, 4, MaxH, m, Options(0, 2, TRUE), AllLibs, {}) :
        d \in StrongMid, m \in {"prophet", "holtwinters"}}

AppModels == {"prophet", "holtwinters", "sarimax", "ml_cluster"}

\* app service: several entities, single models; with clustering and survival
\* the request is sent twice
AppMulti ==
         With({Scenario("app", d, LastMonth(d), h, m, Options(0, 12, FALSE), AllLibs, {}) :
                 d \in MultiData, h \in Horizons, m \in AppModels},
              <<1, 3>>, TRUE, FALSE)
    \cup With({Scenario("app", d, LastMonth(d), MaxH, m, Options(2, 12, TRUE), AllLibs, {}) :
                 d \in MultiData, m \in AppModels},
              <<1, 3>>, FALSE, TRUE)

\* app service: the ensemble, with every subset of its forecasters failing
AppEnsemble ==
    With({Scenario("app", d, LastMonth(d), MaxH, "ensemble", Options(2, 12, TRUE), AllLibs, f) :
            d \in MultiData, f \in SUBSET Components}
         \cup {Scenario("app", d, LastMonth(d), MaxH, "ensemble", Options(0, 12, FALSE),
                         AllLibs, f) :
                 d \in LongData, f \in SUBSET Components},
         <<2, 3>>, FALSE, FALSE)

\* app service: requests to refuse, and a forecaster failing on its own
AppBad ==
    With({Scenario("app", d, LastMonth(d), 1, m, Options(5, 12, TRUE), AllLibs, {}) :
            d \in BadData, m \in {"prophet", "ensemble"}}
         \cup {Scenario("app", d, 0, 1, m, Options(5, 12, TRUE), AllLibs, {}) :
                 d \in {One(Steady)}, m \in {"prophet", "ensemble"}}
         \cup {Scenario("app", d, LastMonth(d), 1, "arima", Options(n, 12, TRUE), AllLibs, {}) :
                 d \in {One(Steady)}, n \in {0, 5}}
         \cup {Scenario("app", d, LastMonth(d), 1, m, Options(0, 12, FALSE), AllLibs, {m}) :
                 d \in {One(Steady)}, m \in Components},
         <<1, 3>>, FALSE, TRUE)

RootModels == {"v0", "holtwinters", "prophet", "sarimax", "ml_cluster", "ensemble"}

\* root service: one series, every listed model, everything installed
RootSingle ==
         {Scenario("root", d, LastMonth(d), MaxH, m, Options(0, 12, FALSE), AllLibs, {}) :
            d \in ShortData \cup SparseData, m \in {"v0", "prophet", "ensemble"}}
    \cup With({Scenario("root", d, LastMonth(d), MaxH, m, Options(0, 12, FALSE), AllLibs, {}) :
                 d \in StrongMid \cup LongData, m \in RootModels},
              <<1, 2, 3>>, FALSE, FALSE)

\* root service: several entities, cluster counts, survival, missing libraries
RootMulti ==
    LET S == {s \in {Scenario("root", d, LastMonth(d), h, m, Options(n, 12, sv), i, {}) :
                       d \in MultiData, h \in Horizons, m \in RootModels \cup {"arima"},
                       n \in {0, 2, 5}, sv \in BOOLEAN,
                       i \in {AllLibs, {}, {"statsmodels"}}} :
                /\ (s.req.options.n_clusters # 0 =>
                        s.req.model = "ml_cluster" /\ s.req.forecastMonths = 1)
                /\ (s.env.installed # AllLibs =>
                        /\ s.req.options.n_clusters = 0
                        /\ s.req.options.survival
                        /\ s.req.forecastMonths = 1
                        /\ s.req.model \in {"prophet", "sarimax", "ml_cluster", "ensemble"})
                /\ (s.req.options.survival => s.req.forecastMonths = 1)}
        Twice == {s \in S : s.env.installed # AllLibs \/ s.req.options.n_clusters # 0}
    IN  With(Twice, <<1, 3>>, FALSE, TRUE) \cup With(S \ Twice, <<1, 3>>, FALSE, FALSE)

\* root service: requests to refuse, a null options object, an earlier cutoff
RootBad ==
    With({Scenario("root", d, LastMonth(d), 1, m, Options(0, 12, sv), AllLibs, {}) :
            d \in BadData, m \in {"v0", "prophet"}, sv \in BOOLEAN}
         \cup {Scenario("root", d, 0, 1, m, Options(0, 12, sv), AllLibs, {}) :
                 d \in {One(Steady)}, m \in {"v0", "prophet"}, sv \in BOOLEAN}
         \cup {Scenario("root", d, LastMonth(d), 1, m,
                        [Options(0, 12, FALSE) EXCEPT !.null = TRUE], AllLibs, {}) :
                 d \in {One(Steady)}, m \in {"v0", "ml_cluster"}}
         \cup {Scenario("root", d, 4, 1, m, Options(0, 12, TRUE), i, {}) :
                 d \in StrongMid, m \in {"v0", "prophet"}, i \in {AllLibs, {"prophet"}}},
         <<1, 3>>, FALSE, TRUE)

\* EnsembleForecaster used on its own: models and weights as the caller gives
\* them, every subset of its forecasters failing
EnsembleConfigs ==
    {<< <<"prophet", "holtwinters">>, <<>> >>,
     << <<"holtwinters", "prophet">>, <<Rat(3, 5), Rat(2, 5)>> >>,
     << <<"prophet", "sarimax", "holtwinters">>, <<Rat(4, 10), Rat(3, 10), Rat(3, 10)>> >>,
     << <<"prophet", "xgboost">>, <<Rat(1, 2), Rat(1, 2)>> >>}

Direct ==
    With({[Scenario("ensemble", d, LastMonth(d), MaxH, "ensemble", Options(0, 12, FALSE),
                    AllLibs, f)
             EXCEPT !.req.models = c[1], !.req.weights = c[2]] :
            d \in MultiData \cup LongData, c \in EnsembleConfigs,
            f \in SUBSET {"prophet", "holtwinters"}},
         <<3, 4>>, FALSE, FALSE)

\* both services: more entities than the top list holds, entities of different
\* recency, with and without the survival analysis
AppOrder ==
    With({Scenario("app", d, LastMonth(d), MaxH, m, Options(0, 12, sv), AllLibs, {}) :
            d \in {WideData, RecencyData, SplitData}, m \in {"prophet", "holtwinters", "ensemble"},
            sv \in BOOLEAN},
         <<1, 3>>, FALSE, FALSE)

RootOrder ==
    With({Scenario("root", d, LastMonth(d), MaxH, m, Options(0, 12, sv), AllLibs, {}) :
            d \in {WideData, RecencyData}, m \in {"v0", "prophet", "ensemble"},
            sv \in BOOLEAN},
         <<1, 3>>, FALSE, FALSE)

\* root service: the library fails for the first entity only
RootFaulty ==
    With({Scenario("root", d, LastMonth(d), MaxH, m, Options(0, 12, sv), AllLibs, {}) :
            d \in {SalesData(<<Cliente("A", <<Sku("s1", "A", Rep(6, 24))>>),
                               Cliente("B", <<Sku("s2", "B", Rep(12, 24))>>)>>, 24)},
            m \in {"prophet", "holtwinters", "sarimax"}, sv \in BOOLEAN},
         <<3>>, TRUE, FALSE)

\* both services: cutoffs in January, June, July and December, on several days
\* of the month
Dated ==
    With({Scenario(e[1], DatedData(day), c, MaxH, e[2], Options(0, 12, FALSE), AllLibs, {}) :
            e \in {<<"app", "prophet">>, <<"app", "holtwinters">>, <<"app", "ensemble">>,
                   <<"root", "v0">>, <<"root", "prophet">>},
            day \in CutoffDays, c \in {1, 6, 7, 12}},
         <<3>>, FALSE, FALSE)

\* root service: two customers with the same sales up to a cutoff in month 4
\* and sales after it that are the same or not
RootCutoff ==
    With({Scenario("root",
                   SalesData(<<Cliente("A", <<Sku("s1", "A", Steady)>>),
                               Cliente("B", <<Sku("s2", "B", Rep(6, 4) \o t)>>)>>, 6),
                   c, MaxH, m, Options(0, 12, sv), AllLibs, {}) :
            t \in {<<6, 6>>, <<0, 0>>, <<0, 6>>}, c \in {4, 6},
            m \in {"v0", "prophet", "ml_cluster"}, sv \in BOOLEAN},
         <<3>>, FALSE, FALSE)

\* the ensemble over components whose top lists differ
DirectOrder ==
    With({[Scenario("ensemble", SplitData, LastMonth(SplitData), MaxH, "ensemble",
                    Options(0, 12, FALSE), AllLibs, {})
             EXCEPT !.req.models = c[1], !.req.weights = c[2]] :
            c \in {<< <<"prophet", "holtwinters">>, <<>> >>,
                   << <<"holtwinters", "prophet">>, <<Rat(3, 5), Rat(2, 5)>> >>}},
         <<1, 3>>, FALSE, FALSE)

Scenarios ==
    AppSingle \cup AppSeasonal \cup AppCutoff \cup AppMulti \cup AppEnsemble \cup AppBad
    \cup RootSingle \cup RootMulti \cup RootBad \cup Direct \cup AppOrder \cup RootOrder
    \cup DirectOrder \cup RootFaulty \cup Dated
    \cup RootCutoff

(***************************************************************************)
(* State                                                                   *)
(***************************************************************************)
VARIABLES
    req,             \* the request being served
    env,             \* libraries installed, forecasters that fail as a whole
    pc,              \* where the handler is
    invocation,      \* 1 or 2: the same request is sent a second time
    warnings,        \* the handler's local list `warnings`
    clusters,        \* clusters / cluster_assignments
    survival_probs,  \* survival_probs, <<>> when not computed
    forecaster,      \* the forecaster object built for the request
    ens,             \* EnsembleForecaster.forecast: loop position, all_forecasts
    oracle,          \* what the libraries answered so far (they answer the same again)
    forecast_result, \* forecast_result / results
    resp,            \* the answer of the current invocation
    first            \* the answer of the first invocation

vars == <<req, env, pc, invocation, warnings, clusters, survival_probs, forecaster, ens,
          oracle, forecast_result, resp, first>>

NoValue == [none |-> TRUE]

NoOracle ==
    [set |-> {}, kmeans |-> <<>>, prophet |-> <<>>, sarimax |-> <<>>, holtwinters |-> <<>>,
     ml |-> <<>>]

Init ==
    /\ \E s \in Scenarios : req = s.req /\ env = s.env
    /\ pc = "start"
    /\ invocation = 1
    /\ warnings = <<>>
    /\ clusters = <<>>
    /\ survival_probs = <<>>
    /\ forecaster = NoValue
    /\ ens = NoValue
    /\ oracle = NoOracle
    /\ forecast_result = NoValue
    /\ resp = NoValue
    /\ first = NoValue

\* a library asked again for the same thing answers as before
Answers(key, choices) == IF key \in oracle.set THEN {oracle[key]} ELSE choices

Remember(key, answer) == [oracle EXCEPT ![key] = answer, !.set = @ \cup {key}]

(***************************************************************************)
(* Exceptions and the handlers' except clauses                             *)
(***************************************************************************)
HTTPException(status_code, detail) == [http |-> TRUE, status |-> status_code, detail |-> detail]

Error(detail) == [http |-> FALSE, status |-> 0, detail |-> detail]

\* an except clause that hands on the status the exception carries
reraise(e) == [status |-> e.status, detail |-> e.detail]

\* app/main.py: except Exception as e: raise HTTPException(status_code=500, ...)
predict_forecast_except(e) == [status |-> 500, detail |-> e.detail]

\* main.py: except HTTPException: raise / except Exception: ... 500
predict_except(e) ==
    IF e.http THEN [status |-> e.status, detail |-> e.detail]
    ELSE [status |-> 500, detail |-> e.detail]

\* a handler that goes on with the warnings list it finds
kept_warnings(left_behind) == left_behind

\* warnings = [] at the start of a request (app/main.py)
predict_forecast_warnings(left_behind) == <<>>

\* warnings = [] at the start of a request (main.py)
predict_warnings(left_behind) == <<>>

\* the set of labels in use: len(set(clusters.values()))
LabelsUsed(f) == Cardinality({f[x] : x \in DOMAIN f})

\* ForecastResponse(...) of app/main.py
ForecastResponse(model_name, result, warns, clus, options) ==
    [status |-> 200,
     modelRequested |-> model_name,
     modelUsed |-> <<model_name, "v1">>,
     summary |-> result.summary,
     graficoHistorico |-> result.graficoHistorico,
     graficoForecast |-> result.graficoForecast,
     resultadosPorSku |-> TopSkus(result),
     resultadosPorCliente |-> result.resultadosPorCliente,
     detalleCompleto |-> [meses |-> result.meses,
                          forecastMeses |-> result.forecastMeses,
                          resultadosPorSku |-> result.skus,
                          resultadosPorCliente |-> result.detalleClientes],
     clusters_used |-> IF DOMAIN clus # {} THEN LabelsUsed(clus) ELSE 0,
     survival_analysis |-> options.survival,
     warnings |-> warns]

\* ForecastResponse(...) of main.py
RootResponse(model_name, results, warns) ==
    [status |-> 200,
     modelRequested |-> model_name,
     modelUsed |-> <<results.model_used>>,
     summary |-> results.summary,
     graficoHistorico |-> results.graficoHistorico,
     graficoForecast |-> results.graficoForecast,
     resultadosPorSku |-> TopSkus(results),
     resultadosPorCliente |-> results.resultadosPorCliente,
     detalleCompleto |-> [meses |-> results.meses,
                          forecastMeses |-> results.forecastMeses,
                          resultadosPorSku |-> results.skus,
                          resultadosPorCliente |-> results.detalleClientes],
     clusters_used |-> 0,
     survival_analysis |-> FALSE,
     warnings |-> warns \o results.warnings]

(***************************************************************************)
(* app/main.py predict_forecast, step by step                              *)
(***************************************************************************)
\* the except clause ends the request
AppFail(e) ==
    /\ resp' = predict_forecast_except(e)
    /\ pc' = "done"

\* validator.validate_data(...); warnings = []
AppValidate ==
    /\ pc = "start" /\ req.entry = "app"
    /\ LET validation_result == validate_data(req.sales, req.endDate)
       IN  IF ~validation_result.valid
           THEN /\ AppFail(HTTPException(400, validation_result.errors))
                /\ UNCHANGED warnings
           ELSE /\ warnings' = predict_forecast_warnings(warnings)
                /\ pc' = "clustering"
                /\ UNCHANGED resp
    /\ UNCHANGED <<req, env, invocation, clusters, survival_probs, forecaster, ens, oracle,
                   forecast_result, first>>

\* if model_name == "ml_cluster" or options.n_clusters: clusterer.fit_predict(...)
AppClustering ==
    /\ pc = "clustering"
    /\ IF req.model = "ml_cluster" \/ req.options.n_clusters # 0
       THEN LET n_clusters == IF req.options.n_clusters # 0 THEN req.options.n_clusters ELSE 5
                n == Len(ClusterIds(req.sales, req.endDate))
            IN  \E labels \in Answers("kmeans", IF n < n_clusters THEN {<<>>}
                                                ELSE LabelChoices(n, n_clusters)) :
                   LET fitted == CustomerClusterer_fit_predict(req.sales, req.endDate,
                                                               n_clusters, labels)
                   IN  /\ clusters' = fitted
                       /\ warnings' = Append(warnings, Warning("clusters", LabelsUsed(fitted)))
                       /\ oracle' = Remember("kmeans", labels)
       ELSE UNCHANGED <<clusters, warnings, oracle>>
    /\ pc' = "survival"
    /\ UNCHANGED <<req, env, invocation, survival_probs, forecaster, ens, forecast_result,
                   resp, first>>

\* if options.enable_survival: compute_survival_probabilities(...)
AppSurvival ==
    /\ pc = "survival"
    /\ IF req.options.survival
       THEN /\ survival_probs' = compute_survival_probabilities(req.sales, req.endDate,
                                                                req.forecastMonths)
            /\ warnings' = Append(warnings, Warning("survival", 0))
       ELSE UNCHANGED <<survival_probs, warnings>>
    /\ pc' = "select"
    /\ UNCHANGED <<req, env, invocation, clusters, forecaster, ens, oracle, forecast_result,
                   resp, first>>

\* the loop state of EnsembleForecaster.forecast before its first iteration
EnsembleStart(fc) ==
    [i |-> 1, all_forecasts |-> <<>>, survivors |-> <<>>,
     runs |-> [j \in DOMAIN fc.forecasters |-> 0], weights |-> <<>>, combined |-> FALSE]

\* Select and run model: the forecaster is built, an unknown name is refused
AppSelect ==
    /\ pc = "select"
    /\ IF req.model \in {"prophet", "sarimax", "holtwinters"}
       THEN /\ forecaster' = NewForecaster(req.model, req.options.seasonal_period)
            /\ pc' = "forecast"
            /\ UNCHANGED <<ens, resp>>
       ELSE IF req.model \in {"ensemble", "ml_cluster"}
       THEN /\ forecaster' =
                  IF req.model = "ensemble"
                  THEN Ensemble_init(<<"prophet", "sarimax", "holtwinters">>,
                                     <<Rat(4, 10), Rat(3, 10), Rat(3, 10)>>)
                  ELSE Ensemble_init(<<"prophet", "xgboost">>, <<Rat(5, 10), Rat(5, 10)>>)
            /\ ens' = EnsembleStart(forecaster')
            /\ pc' = "ensemble"
            /\ UNCHANGED resp
       ELSE /\ AppFail(HTTPException(400, <<"Unknown model">>))
            /\ UNCHANGED <<forecaster, ens>>
    /\ UNCHANGED <<req, env, invocation, warnings, clusters, survival_probs, oracle,
                   forecast_result, first>>

\* what predict_forecast does with the outcome of forecaster.forecast(...)
AppForecasted(out) ==
    IF out.raised
    THEN /\ AppFail(Error(out.detail))
         /\ UNCHANGED <<forecast_result, forecaster>>
    ELSE /\ forecast_result' = out.result
         /\ forecaster' = out.forecaster
         /\ pc' = "adjust"
         /\ UNCHANGED resp

\* the answers the libraries can give the forecaster fc in this request
FitAnswers(fc) ==
    Answers(fc.kind,
            IF fc.kind \in env.faults THEN {<<>>}
            ELSE FitChoices(fc, req.sales, req.forecastMonths, req.endDate, env.outcomes,
                            env.mixed))

\* forecaster.forecast(...) of a single model
AppForecast ==
    /\ pc = "forecast"
    /\ \E fit \in FitAnswers(forecaster) :
          /\ oracle' = Remember(forecaster.kind, fit)
          /\ AppForecasted(Forecaster_forecast(forecaster, req.sales, req.forecastMonths,
                                               req.endDate, fit,
                                               forecaster.kind \in env.faults))
    /\ UNCHANGED <<req, env, invocation, warnings, clusters, survival_probs, ens, first>>

\* a loop that stays on a forecaster that raised and runs it again
EnsembleRetried(out) ==
    /\ ens' = [ens EXCEPT
                  !.i = IF out.raised THEN @ ELSE @ + 1,
                  !.runs[ens.i] = @ + 1,
                  !.all_forecasts = IF out.raised THEN @ ELSE Append(@, out.result),
                  !.survivors = IF out.raised THEN @ ELSE Append(@, ens.i)]
    /\ forecaster' = IF out.raised THEN forecaster
                     ELSE [forecaster EXCEPT !.forecasters[ens.i] = out.forecaster]

\* try: all_forecasts.append(result)  except: logger.error, go on
EnsembleRan(out) ==
    /\ ens' = [ens EXCEPT
                  !.i = @ + 1,
                  !.runs[ens.i] = @ + 1,
                  !.all_forecasts = IF out.raised THEN @ ELSE Append(@, out.result),
                  !.survivors = IF out.raised THEN @ ELSE Append(@, ens.i)]
    /\ forecaster' = IF out.raised THEN forecaster
                     ELSE [forecaster EXCEPT !.forecasters[ens.i] = out.forecaster]

\* one iteration of the loop over self.forecasters: a forecaster that raises is
\* logged and skipped
EnsembleRun ==
    /\ pc = "ensemble"
    /\ ens.i <= Len(forecaster.forecasters)
    /\ \E fit \in FitAnswers(forecaster.forecasters[ens.i]) :
          /\ oracle' = Remember(forecaster.forecasters[ens.i].kind, fit)
          /\ EnsembleRan(Forecaster_forecast(forecaster.forecasters[ens.i], req.sales,
                                             req.forecastMonths, req.endDate, fit,
                                             forecaster.forecasters[ens.i].kind \in env.faults))
    /\ UNCHANGED <<req, env, pc, invocation, warnings, clusters, survival_probs,
                   forecast_result, resp, first>>

\* the exception of EnsembleForecaster.forecast reaches the caller: the except
\* clause of predict_forecast, or whoever called the class directly
EnsembleFail(e) ==
    /\ resp' = IF req.entry = "app" THEN predict_forecast_except(e)
               ELSE [raised |-> TRUE, detail |-> e.detail]
    /\ pc' = "done"

\* after the loop: no forecast at all is an error, otherwise _combine_forecasts
\* with self.weights[:len(all_forecasts)]
EnsembleCombine ==
    /\ pc = "ensemble"
    /\ ens.i > Len(forecaster.forecasters)
    /\ IF ens.all_forecasts = <<>>
       THEN /\ EnsembleFail(Error(<<"All ensemble models failed">>))
            /\ UNCHANGED <<ens, forecast_result>>
       ELSE LET weights == FirstK(forecaster.weights, Len(ens.all_forecasts))
                out == combine_forecasts(ens.all_forecasts, weights)
            IN  IF out.raised
                THEN /\ EnsembleFail(Error(<<"list index out of range">>))
                     /\ UNCHANGED <<ens, forecast_result>>
                ELSE /\ forecast_result' = out.result
                     /\ ens' = [ens EXCEPT !.weights = CombineWeights(weights),
                                           !.combined = TRUE]
                     /\ IF req.entry = "app"
                        THEN pc' = "adjust" /\ UNCHANGED resp
                        ELSE pc' = "done" /\ resp' = [raised |-> FALSE, result |-> out.result]
    /\ UNCHANGED <<req, env, invocation, warnings, clusters, survival_probs, forecaster,
                   oracle, first>>

\* if survival_probs: apply_survival_adjustment(...)
AppAdjust ==
    /\ pc = "adjust"
    /\ forecast_result' =
          IF DOMAIN survival_probs # {}
          THEN apply_survival_adjustment(forecast_result, survival_probs, req.forecastMonths)
          ELSE forecast_result
    /\ pc' = "respond"
    /\ UNCHANGED <<req, env, invocation, warnings, clusters, survival_probs, forecaster, ens,
                   oracle, resp, first>>

\* response = ForecastResponse(...); return response
AppRespond ==
    /\ pc = "respond"
    /\ resp' = ForecastResponse(req.model, forecast_result, warnings, clusters, req.options)
    /\ pc' = "done"
    /\ UNCHANGED <<req, env, invocation, warnings, clusters, survival_probs, forecaster, ens,
                   oracle, forecast_result, first>>

\* EnsembleForecaster(models, weights).forecast(...) called on its own
EnsembleDirect ==
    /\ pc = "start" /\ req.entry = "ensemble"
    /\ forecaster' = Ensemble_init(req.models, req.weights)
    /\ ens' = EnsembleStart(forecaster')
    /\ pc' = "ensemble"
    /\ UNCHANGED <<req, env, invocation, warnings, clusters, survival_probs, oracle,
                   forecast_result, resp, first>>

(***************************************************************************)
(* main.py predict (root service), step by step                            *)
(***************************************************************************)
RootFail(e) ==
    /\ resp' = predict_except(e)
    /\ pc' = "done"

\* AdvancedForecaster.__init__
AdvancedForecaster_init(model_type, forecast_horizon) ==
    [kind |-> "advanced", model_type |-> model_type, forecast_horizon |-> forecast_horizon,
     warnings |-> <<>>]

\* warnings = []; validate_sales_data(...); forecaster = AdvancedForecaster(...)
RootValidate ==
    /\ pc = "start" /\ req.entry = "root"
    /\ warnings' = predict_warnings(warnings)
    /\ LET validation_errors == validate_sales_data(req.sales)
       IN  IF validation_errors # <<>>
           THEN /\ RootFail(HTTPException(400, validation_errors))
                /\ UNCHANGED forecaster
           ELSE /\ forecaster' = AdvancedForecaster_init(req.model, req.forecastMonths)
                /\ pc' = "r_cluster"
                /\ UNCHANGED resp
    /\ UNCHANGED <<req, env, invocation, clusters, survival_probs, ens, oracle,
                   forecast_result, first>>

\* if request.model == "ml_cluster": ClientClusterer(...).fit_predict(...)
RootCluster ==
    /\ pc = "r_cluster"
    /\ IF req.model # "ml_cluster"
       THEN /\ pc' = "r_survival"
            /\ UNCHANGED <<clusters, warnings, oracle, resp>>
       ELSE IF req.options.null
       THEN /\ RootFail(Error(<<"'NoneType' object has no attribute 'get'">>))
            /\ UNCHANGED <<clusters, warnings, oracle>>
       ELSE LET n == Len(ClientIds(req.sales))
                k == KMeansClusters(req.options.n_clusters, n)
            IN  \E labels \in Answers("kmeans", IF n < 2 \/ n < k THEN {<<>>}
                                                ELSE KMeansLabels(ClientSeries(req.sales),
                                                                  k)) :
                   LET out == ClientClusterer_fit_predict(req.sales, req.options.n_clusters,
                                                          labels)
                   IN  /\ oracle' = Remember("kmeans", labels)
                       /\ IF out.raised
                          THEN /\ RootFail(Error(<<"n_samples should be >= n_clusters">>))
                               /\ UNCHANGED <<clusters, warnings>>
                          ELSE /\ clusters' = out.labels
                               /\ warnings' = Append(warnings,
                                                     Warning("clusters", LabelsUsed(out.labels)))
                               /\ pc' = "r_survival"
                               /\ UNCHANGED resp
    /\ UNCHANGED <<req, env, invocation, survival_probs, forecaster, ens, forecast_result,
                   first>>

\* if request.options.get("include_survival_analysis", False): predict_continuity(...)
RootSurvival ==
    /\ pc = "r_survival"
    /\ IF req.options.null
       THEN /\ RootFail(Error(<<"'NoneType' object has no attribute 'get'">>))
            /\ UNCHANGED survival_probs
       ELSE IF ~req.options.survival
       THEN /\ pc' = "r_forecast"
            /\ UNCHANGED <<survival_probs, resp>>
       ELSE IF req.endDate \notin Range(req.sales.meses)
       THEN /\ RootFail(Error(<<"is not in list">>))
            /\ UNCHANGED survival_probs
       ELSE /\ survival_probs' = predict_continuity(req.sales, req.endDate,
                                                    "lifelines" \in env.installed)
            /\ pc' = "r_forecast"
            /\ UNCHANGED resp
    /\ UNCHANGED <<req, env, invocation, warnings, clusters, forecaster, ens, oracle,
                   forecast_result, first>>

\* the library a strategy imports
LibraryOf(name) ==
    CASE name = "prophet" -> "prophet"
      [] name = "ml" -> "xgboost"
      [] OTHER -> "statsmodels"

\* the answers the strategy `name` gets in this request: none when it is not run
StrategyAnswers(name) ==
    IF name \in StrategiesOf(req.model) /\ LibraryOf(name) \in env.installed
    THEN Answers(name, StrategyChoices(name, req.sales, req.forecastMonths, req.endDate,
                                       env.outcomes, env.mixed))
    ELSE {oracle[name]}

\* what predict does with the outcome of forecaster.forecast(...)
RootForecasted(out) ==
    IF out.raised
    THEN /\ RootFail(Error(<<out.detail>>))
         /\ UNCHANGED <<forecast_result, forecaster>>
    ELSE /\ forecast_result' = out.response
         /\ forecaster' = [forecaster EXCEPT !.warnings = out.response.warnings]
         /\ pc' = "r_respond"
         /\ UNCHANGED resp

\* results = forecaster.forecast(...)
RootForecast ==
    /\ pc = "r_forecast"
    /\ \E fp \in StrategyAnswers("prophet"), fh \in StrategyAnswers("holtwinters"),
          fs \in StrategyAnswers("sarimax"), fm \in StrategyAnswers("ml") :
          /\ oracle' = [oracle EXCEPT
                           !.prophet = fp, !.holtwinters = fh, !.sarimax = fs, !.ml = fm,
                           !.set = @ \cup {name \in StrategiesOf(req.model) :
                                              LibraryOf(name) \in env.installed}]
          /\ RootForecasted(
                 Advanced_forecast(forecaster, req.sales, req.endDate, survival_probs,
                                   env.installed,
                                   [prophet |-> fp, holtwinters |-> fh, sarimax |-> fs,
                                    ml |-> fm]))
    /\ UNCHANGED <<req, env, invocation, warnings, clusters, survival_probs, ens, first>>

\* response = ForecastResponse(...); return response
RootRespond ==
    /\ pc = "r_respond"
    /\ resp' = RootResponse(req.model, forecast_result, warnings)
    /\ pc' = "done"
    /\ UNCHANGED <<req, env, invocation, warnings, clusters, survival_probs, forecaster, ens,
                   oracle, forecast_result, first>>

(***************************************************************************)
(* The same request is sent again: the handler's locals are gone, what the  *)
(* module keeps between requests stays                                      *)
(***************************************************************************)
Reinvoke ==
    /\ pc = "done" /\ invocation = 1 /\ env.repeat
    /\ first' = resp
    /\ invocation' = 2
    /\ pc' = "start"
    /\ resp' = NoValue
    /\ clusters' = <<>>
    /\ survival_probs' = <<>>
    /\ forecaster' = NoValue
    /\ ens' = NoValue
    /\ forecast_result' = NoValue
    /\ UNCHANGED <<req, env, warnings, oracle>>

Next ==
    \/ AppValidate
    \/ AppClustering
    \/ AppSurvival
    \/ AppSelect
    \/ AppForecast
    \/ EnsembleDirect
    \/ EnsembleRun
    \/ EnsembleCombine
    \/ AppAdjust
    \/ AppRespond
    \/ RootValidate
    \/ RootCluster
    \/ RootSurvival
    \/ RootForecast
    \/ RootRespond
    \/ Reinvoke

Spec == Init /\ [][Next]_vars

(***************************************************************************)
(* Properties of the responses                                             *)
(***************************************************************************)
\* the request has been answered with a response body
Answered == pc = "done" /\ "status" \in DOMAIN resp /\ resp.status = 200

\* EnsembleForecaster.forecast has returned a combined result
Combined == "combined" \in DOMAIN ens /\ ens.combined

AllZero(s) == \A i \in DOMAIN s : s[i] = R(0)

\* the truncated history of the k-th sku of the request
History(k) ==
    Historico(Skus(req.sales)[k].sku, req.sales.meses, Index(req.sales.meses, req.endDate))

\* an entity result has one value per forecast month, none of them negative
ShapeOk(e) ==
    /\ Len(e.forecast_detalle) = req.forecastMonths
    /\ \A i \in DOMAIN e.forecast_detalle : RNonNeg(e.forecast_detalle[i])

ResultShapeOk(r) == \A k \in DOMAIN r.skus : ShapeOk(r.skus[k])

\* C1: every entity result a forecaster returns (ProphetForecaster,
\* HoltWintersForecaster, SARIMAXForecaster as ensemble components, the
\* EnsembleForecaster, AdvancedForecaster with any model, fallback paths
\* included), before and after survival adjustment and in the response, has
\* exactly forecastMonths values in forecast_detalle, all of them >= 0.
C1_ForecastShape ==
    /\ "skus" \in DOMAIN forecast_result => ResultShapeOk(forecast_result)
    /\ "all_forecasts" \in DOMAIN ens =>
          \A j \in DOMAIN ens.all_forecasts : ResultShapeOk(ens.all_forecasts[j])
    /\ Answered =>
          \A k \in DOMAIN resp.detalleCompleto.resultadosPorSku :
              ShapeOk(resp.detalleCompleto.resultadosPorSku[k])

\* survival adjustment has been applied to a combined forecast whose library
\* answered with negative values, and a positive value is left in the last month
C1_Witness ==
    /\ pc = "respond" /\ req.model = "ensemble" /\ DOMAIN survival_probs # {}
    /\ req.forecastMonths = MaxH
    /\ "prophet" \in oracle.set
    /\ \E k \in DOMAIN oracle.prophet :
          ~oracle.prophet[k].raises /\ oracle.prophet[k].raw[1] < 0
    /\ \E k \in DOMAIN forecast_result.skus :
          RPos(forecast_result.skus[k].forecast_detalle[MaxH])

ClosedIsZero(e) ==
    e.estado = "cerrado" => e.forecast = R(0) /\ AllZero(e.forecast_detalle)

LastThreeNonPositive(h) == \A i \in DOMAIN h : i > Len(h) - 3 => h[i] <= 0

\* the results of ProphetForecaster.forecast and HoltWintersForecaster.forecast
\* at hand: the single model's result before adjustment, the ensemble's components
ProphetOrHoltWintersResults ==
         (IF pc = "adjust" /\ req.model \in {"prophet", "holtwinters"}
          THEN {forecast_result} ELSE {})
    \cup (IF "all_forecasts" \in DOMAIN ens
          THEN {ens.all_forecasts[j] : j \in
                  {j \in DOMAIN ens.all_forecasts :
                      forecaster.forecasters[ens.survivors[j]].kind
                          \in {"prophet", "holtwinters"}}}
          ELSE {})

\* C3 (as amended): ProphetForecaster.forecast and HoltWintersForecaster.forecast
\* classify an entity closed exactly when its truncated history has at least 3
\* periods and the last 3 are all <= 0; an entity with a positive value in its
\* last 3 periods, or with fewer than 3 periods, is never closed.
C3_ClosedRule ==
    \A r \in ProphetOrHoltWintersResults :
        \A k \in DOMAIN r.skus :
            r.skus[k].estado = "cerrado"
                <=> (Len(History(k)) >= 3 /\ LastThreeNonPositive(History(k)))

\* an entity with a strong start is closed although the library predicted
\* positive values for it
C3_Witness ==
    /\ pc = "adjust" /\ req.model = "prophet"
    /\ \E k \in DOMAIN forecast_result.skus :
          /\ forecast_result.skus[k].estado = "cerrado"
          /\ History(k)[1] > 0
          /\ ~oracle.prophet[k].raises /\ oracle.prophet[k].raw[1] > 0

\* C3 (as stated): an entity is closed exactly when the last 3 periods of its
\* truncated history are all <= 0, however many periods there are.
C3_AsStated ==
    \A r \in ProphetOrHoltWintersResults :
        \A k \in DOMAIN r.skus :
            r.skus[k].estado = "cerrado" <=> LastThreeNonPositive(History(k))

\* the entity of component j that carries the id
ComponentSku(j, id) ==
    LET r == ens.all_forecasts[j]
    IN  r.skus[CHOOSE k \in DOMAIN r.skus : r.skus[k].skuId = id]

\* the components (positions in all_forecasts) whose top list holds the id
ListedBy(id) ==
    {j \in DOMAIN ens.all_forecasts :
        \E k \in DOMAIN ens.all_forecasts[j].top :
            ens.all_forecasts[j].skus[ens.all_forecasts[j].top[k]].skuId = id}

C5_SurvivorResult ==
    (/\ Combined /\ pc = "done" /\ req.entry = "ensemble"
     /\ Len(forecaster.forecasters) = 2 /\ Len(ens.survivors) = 1)
        => /\ resp.result = ens.all_forecasts[1]
           /\ \E w \in DOMAIN warnings : warnings[w].kind = "dropped"

\* every forecaster of the ensemble has been run and none returned a result
Exhausted ==
    /\ "all_forecasts" \in DOMAIN ens
    /\ Len(forecaster.forecasters) >= 1
    /\ ens.i > Len(forecaster.forecasters)
    /\ ens.all_forecasts = <<>>

\* C6: when every component of the ensemble raises, EnsembleForecaster.forecast
\* fails without a combined result, predict_forecast answers with status 500
\* and the message of the failure, and each component has been run once; no
\* component is ever run twice for a request.
C6_Exhausted ==
    /\ "runs" \in DOMAIN ens => \A j \in DOMAIN ens.runs : ens.runs[j] <= 1
    /\ Exhausted /\ pc = "done" =>
          /\ ~ens.combined
          /\ forecast_result = NoValue
          /\ \A j \in DOMAIN ens.runs : ens.runs[j] = 1
          /\ resp.detail = <<"All ensemble models failed">>
          /\ req.entry = "app" => resp.status = 500
          /\ req.entry = "ensemble" => resp.raised

\* the three components of the ensemble model all failed and the request is answered
C6_Witness ==
    /\ pc = "done" /\ req.entry = "app" /\ req.model = "ensemble"
    /\ Exhausted
    /\ Len(forecaster.forecasters) = 3
    /\ resp.status = 500

\* the request fails validation: an empty dataset field, month lists of
\* different lengths, or a cutoff month that is not among the months
FailsValidation ==
    \/ req.sales.clientes = <<>>
    \/ req.sales.meses = <<>>
    \/ Len(req.sales.meses) # Len(req.sales.mesesFecha)
    \/ req.endDate \notin Range(req.sales.meses)

\* C7: a request that fails validation is answered with status 400, never
\* 500, by predict_forecast (app/main.py) and by predict (main.py).
C7_Validation400 ==
    pc = "done" /\ req.entry \in {"app", "root"} /\ FailsValidation => resp.status = 400

\* the request passes validation: customers with codes, months with well-formed
\* dates, the cutoff among the months, a horizon in 1..24, options an object
PassesValidation ==
    /\ req.sales.clientes # <<>> /\ req.sales.meses # <<>>
    /\ Len(req.sales.meses) = Len(req.sales.mesesFecha)
    /\ \A ci \in DOMAIN req.sales.clientes : req.sales.clientes[ci].codigo # ""
    /\ \A i \in DOMAIN req.sales.mesesFecha : req.sales.mesesFecha[i].d >= 1
    /\ req.endDate \in Range(req.sales.meses)
    /\ req.forecastMonths \in 1..24
    /\ ~req.options.null

\* C8: predict (main.py) answers every request that passes validation and
\* names a listed model with status 200.
C8_Valid200 ==
    pc = "done" /\ req.entry = "root" /\ PassesValidation /\ req.model \in RootModels
        => resp.status = 200

\* the sum over all entities of all customers of the series value at month i
TotalAt(i) ==
    ISum(Concat([ci \in DOMAIN req.sales.clientes |->
                   [si \in DOMAIN req.sales.clientes[ci].skus |->
                      IF req.sales.meses[i] \in DOMAIN req.sales.clientes[ci].skus[si].ventasMes
                      THEN req.sales.clientes[ci].skus[si].ventasMes[req.sales.meses[i]]
                      ELSE 0]]))

ChartOk(chart) ==
    /\ Len(chart) = Index(req.sales.meses, req.endDate)
    /\ \A i \in DOMAIN chart :
          chart[i].mes = req.sales.meses[i] /\ chart[i].ventas = R(TotalAt(i))

\* C9: the historical chart has one point per month from the first month to
\* the cutoff, in the order of the months, and point i carries the sum over all
\* entities of all customers of the series value at month i, a missing month
\* counting 0; in the responses of both services and in the ensemble's result.
C9_HistoricalChart ==
    /\ Answered => ChartOk(resp.graficoHistorico)
    /\ pc = "done" /\ req.entry = "ensemble" /\ ~resp.raised =>
          ChartOk(resp.result.graficoHistorico)

\* a response for several customers whose cutoff month has sales, one entity
\* having no sales recorded for that month
C9_Witness ==
    /\ Answered /\ Len(req.sales.clientes) >= 2
    /\ RPos(resp.graficoHistorico[Len(resp.graficoHistorico)].ventas)
    /\ \E k \in DOMAIN resp.detalleCompleto.resultadosPorSku :
          resp.detalleCompleto.resultadosPorSku[k].ultimoValor = R(0)

\* C10: the response to the second of two identical requests, the libraries
\* answering as they did the first time, equals the response to the first in
\* every field (summary, charts, results, full detail, warnings).
C10_Idempotent ==
    pc = "done" /\ invocation = 2 => resp = first

\* the second request is answered with warnings, after the first one left
\* fitted models in the forecaster's cache
C10_Witness ==
    /\ pc = "done" /\ invocation = 2
    /\ "status" \in DOMAIN first /\ first.status = 200
    /\ resp.warnings # <<>>
    /\ "models" \in DOMAIN forecaster /\ forecaster.models # {}

\* a cluster count was asked for that exceeds the number of customers of a
\* dataset the service otherwise serves
MoreClustersThanCustomers ==
    /\ req.entry \in {"app", "root"}
    /\ PassesValidation
    /\ env.faults = {}
    /\ req.options.n_clusters > Len(req.sales.clientes)
    /\ \/ req.entry = "app" /\ req.model \in AppModels \cup {"ensemble"}
       \/ req.entry = "root" /\ req.model = "ml_cluster"

\* every customer of the dataset carries label 0
AllLabelledZero ==
    IF req.entry = "app"
    THEN \A ci \in DOMAIN req.sales.clientes :
            /\ req.sales.clientes[ci].codigo \in DOMAIN clusters
            /\ clusters[req.sales.clientes[ci].codigo] = 0
    ELSE /\ Len(clusters) = Len(req.sales.clientes)
         /\ \A j \in DOMAIN clusters : clusters[j] = 0

\* C11: when the requested cluster count exceeds the number of customers, every
\* customer of the dataset is given label 0, the request is answered with
\* status 200 and the response carries a warning about the clustering.
C11_SingleCluster ==
    pc = "done" /\ MoreClustersThanCustomers =>
        /\ resp.status = 200
        /\ \E w \in DOMAIN resp.warnings : resp.warnings[w].kind = "clusters"
        /\ AllLabelledZero

\* C12: in a predict response the top-entity list has at most 20 entries and is
\* sorted by non-increasing first-period forecast, and the top-customer list is
\* sorted by non-increasing forecast, for single models, for the ensemble and
\* with the survival adjustment.
C12_TopSorted ==
    pc = "done" /\ req.entry \in {"app", "root"} /\ resp.status = 200 =>
        /\ Len(resp.resultadosPorSku) <= TopN
        /\ \A i, j \in DOMAIN resp.resultadosPorSku :
              i < j => ~RLt(resp.resultadosPorSku[i].forecast,
                            resp.resultadosPorSku[j].forecast)
        /\ \A i, j \in DOMAIN resp.resultadosPorCliente :
              i < j => ~RLt(resp.resultadosPorCliente[i].ventasForecast,
                            resp.resultadosPorCliente[j].ventasForecast)

\* the full detail holds one result per entity of the dataset and one aggregate
\* per customer code
DetailComplete ==
    LET own == Skus(req.sales)
        det == resp.detalleCompleto
        codes == {req.sales.clientes[ci].codigo : ci \in DOMAIN req.sales.clientes}
    IN  /\ Len(det.resultadosPorSku) = Len(own)
        /\ \A k \in DOMAIN own :
              Cardinality({j \in DOMAIN det.resultadosPorSku :
                              det.resultadosPorSku[j].skuId = own[k].sku.skuId})
              = Cardinality({j \in DOMAIN own : own[j].sku.skuId = own[k].sku.skuId})
        /\ {det.resultadosPorCliente[j].codigoCliente : j \in DOMAIN det.resultadosPorCliente}
              = codes
        /\ Len(det.resultadosPorCliente) = Cardinality(codes)

\* C13: the full detail of a response contains exactly one result for each
\* entity of the dataset and one aggregate for each customer, however many
\* entities there are, for single models and for the ensemble alike.
C13_FullDetail ==
    pc = "done" /\ req.entry \in {"app", "root"} /\ resp.status = 200 => DetailComplete

\* the profile the survival analysis holds for an entity or customer: the list
\* of compute_survival_probabilities, the one number of predict_continuity
SurvivalProfile(id) ==
    IF req.entry = "app" THEN survival_probs[id] ELSE <<survival_probs[id]>>

\* C14: every survival profile produced for an entity or customer is a sequence
\* of exactly forecastMonths probabilities, each within [0.05, 1.0], also for
\* entities or customers that never had a sale.
C14_SurvivalProfile ==
    \A id \in DOMAIN survival_probs :
        /\ Len(SurvivalProfile(id)) = req.forecastMonths
        /\ \A i \in DOMAIN SurvivalProfile(id) :
              /\ ~RLt(SurvivalProfile(id)[i], Rat(5, 100))
              /\ ~RLt(R(1), SurvivalProfile(id)[i])

\* the average of the last up-to-3 nonzero values, once per forecast period
FallbackPolicyValue(h, periods) ==
    IF NonZero(h) = <<>> THEN Rep(R(0), periods)
    ELSE Rep(RMean(Map1(LastK(NonZero(h), 3), R)), periods)

\* fewer than 2 nonzero periods, and the last 3 periods not all <= 0
FewPeriodsStillOpen(h) == Len(NonZero(h)) < 2 /\ ~LastThreeNonPositive(h)

\* a response of _forecast_v0, ProphetForecaster or HoltWintersForecaster, not
\* adjusted afterwards
PlainSingleModel ==
    /\ Answered /\ ~req.options.survival
    /\ \/ req.entry = "app" /\ req.model \in {"prophet", "holtwinters"}
       \/ req.entry = "root" /\ req.model = "v0"

\* C15: an entity with fewer than 2 nonzero periods in its truncated history,
\* whose last 3 periods are not all <= 0, has the status InsufficientData
\* (neither active nor closed), the Fallback Policy value as its forecast and
\* an undefined accuracy metric.
C15_InsufficientData ==
    PlainSingleModel =>
        \A k \in DOMAIN resp.detalleCompleto.resultadosPorSku :
            FewPeriodsStillOpen(History(k)) =>
                LET e == resp.detalleCompleto.resultadosPorSku[k]
                IN  /\ e.estado = "sin_datos_suficientes"
                    /\ e.forecast_detalle = FallbackPolicyValue(History(k), req.forecastMonths)
                    /\ e.mape = None

\* the metric as stated: over the last min(3, n \div 4) of the n periods, the mean
\* of |actual - predicted| / actual where actual > 0, times 100; undefined when
\* n < 6 or no such period
StatedMetric(h, pred) ==
    LET valid == Positives(LastK(h, Min(3, Len(h) \div 4)))
    IN  IF Len(h) < 6 \/ valid = <<>> THEN None
        ELSE RMul(RMean([i \in DOMAIN valid |-> Rat(Abs(valid[i] - pred), valid[i])]),
                  R(100))

\* the library's answer for the k-th entity of a single-model request
FitOf(k) == IF req.model = "holtwinters" THEN oracle.holtwinters[k] ELSE oracle.prophet[k]

\* the model was fitted to the k-th entity and evaluated on the holdout
Evaluated(k) ==
    /\ ~FitOf(k).raises /\ ~FitOf(k).cv_raises
    /\ IF req.entry = "root" THEN Len(Positives(History(k))) >= 3
       ELSE IF req.model = "prophet"
       THEN Prophet_sku(History(k), req.forecastMonths, req.options.seasonal_period,
                        FitOf(k)).fitted
       ELSE HoltWinters_sku(History(k), req.forecastMonths, req.options.seasonal_period,
                            FitOf(k)).fitted

\* a response of ProphetForecaster, HoltWintersForecaster or the prophet
\* strategy of AdvancedForecaster
MetricModel ==
    /\ Answered
    /\ \/ req.entry = "app" /\ req.model \in {"prophet", "holtwinters"}
       \/ req.entry = "root" /\ req.model = "prophet" /\ "prophet" \in env.installed

\* C16: an entity's accuracy metric is the mean, over the holdout periods (the
\* last min(3, floor(n/4)) periods) whose actual value is > 0, of
\* |actual - predicted| / actual, times 100; it is undefined (null), never 0,
\* when n < 6 or no holdout period has actual > 0.
C16_HoldoutMetric ==
    MetricModel =>
        \A k \in DOMAIN resp.detalleCompleto.resultadosPorSku :
            Evaluated(k) =>
                resp.detalleCompleto.resultadosPorSku[k].mape
                    = StatedMetric(History(k), FitOf(k).pred)

\* C17: in a predict response, for every forecast period i, graficoForecast[i]
\* equals the sum over all entities of the full detail of forecast_detalle[i],
\* for single models, for the ensemble and after the survival adjustment.
C17_ForecastChart ==
    Answered /\ req.entry \in {"app", "root"} =>
        /\ Len(resp.graficoForecast) = req.forecastMonths
        /\ \A i \in DOMAIN resp.graficoForecast :
              resp.graficoForecast[i].forecast
                  = ForecastMes(resp.detalleCompleto.resultadosPorSku, i)

\* the entities of the full detail that belong to the customer with the code:
\* the app service labels every entity with its owner's code, the root service
\* keeps the entities in dataset order
OwnedBy(code) ==
    LET ents == resp.detalleCompleto.resultadosPorSku
    IN  IF req.entry = "app"
        THEN SelectSeq(ents, LAMBDA e : e.codigoCliente = code)
        ELSE LET own == Skus(req.sales)
                 ks == SelectSeq([k \in DOMAIN ents |-> k], LAMBDA k : own[k].owner = code)
             IN  [j \in DOMAIN ks |-> ents[ks[j]]]

\* C18: in every response the summary totals equal the sums of ventasHistorico
\* and ventasForecast over the customer aggregates, each customer aggregate
\* equals the sums of last actual and first-period forecast over the entities
\* the customer owns, and summary.skusActivos equals the sum of the customers'
\* skusActivos; also with repeated customer codes, with an entity whose
\* codigoCliente differs from its owner's code, and after survival adjustment.
C18_Aggregates ==
    Answered /\ req.entry \in {"app", "root"} =>
        LET aggs == resp.detalleCompleto.resultadosPorCliente
        IN  /\ resp.summary.totalVentasHistoricas
                  = RSum([j \in DOMAIN aggs |-> aggs[j].ventasHistorico])
            /\ resp.summary.totalForecast
                  = RSum([j \in DOMAIN aggs |-> aggs[j].ventasForecast])
            /\ resp.summary.skusActivos = ISum([j \in DOMAIN aggs |-> aggs[j].skusActivos])
            /\ \A j \in DOMAIN aggs :
                  LET mine == OwnedBy(aggs[j].codigoCliente)
                  IN  /\ aggs[j].ventasHistorico
                            = RSum([m \in DOMAIN mine |-> mine[m].ultimoValor])
                      /\ aggs[j].ventasForecast
                            = RSum([m \in DOMAIN mine |-> mine[m].forecast])

\* the request names a model that is none of the service's strategies
UnknownModel ==
    \/ req.entry = "app" /\ req.model \notin AppModels \cup {"ensemble"}
    \/ req.entry = "root" /\ req.model \notin RootModels

\* no clustering, survival analysis or model fitting has been performed
NothingComputed ==
    /\ clusters = <<>>
    /\ survival_probs = <<>>
    /\ oracle.set = {}
    /\ forecast_result = NoValue
    /\ \A w \in DOMAIN warnings : warnings[w].kind \notin {"clusters", "survival"}

\* C19: a predict request naming a model that is not one of the known strategy
\* or ensemble names is rejected with status 400 before any computation
\* starts: no clustering, survival analysis or model fitting is performed for
\* it, and it is never served by another model.
C19_UnknownModel ==
    UnknownModel /\ PassesValidation =>
        /\ NothingComputed
        /\ pc = "done" => resp.status = 400

\* what the v0 strategy of AdvancedForecaster reports for the k-th entity
BaselineOf(k) ==
    forecast_v0_sku(prepare_historical_data(req.sales,
                                            Index(req.sales.meses, req.endDate))[k],
                    req.forecastMonths)

\* C20: for a given entity history, the lifecycle status and the closed
\* override that AdvancedForecaster.forecast reports are the same whichever
\* model is selected: every model reports for an entity the status that v0
\* reports for it, and a zero forecast where v0 reports the entity closed.
C20_SameStatus ==
    Answered /\ req.entry = "root" /\ req.model \in RootModels =>
        \A k \in DOMAIN resp.detalleCompleto.resultadosPorSku :
            LET e == resp.detalleCompleto.resultadosPorSku[k]
            IN  /\ e.estado = BaselineOf(k).estado
                /\ BaselineOf(k).estado = "cerrado" => AllZero(e.forecast_detalle)

\* the position in the configured names (and weights) of the j-th forecaster
ConfiguredIndex(j) ==
    LET known == SelectSeq([n \in DOMAIN forecaster.model_names |-> n],
                           LAMBDA n : forecaster.model_names[n]
                                         \in {"prophet", "sarimax", "holtwinters"})
    IN  known[j]

\* the configured weight of each survivor over the sum of the survivors'
\* configured weights
OwnWeights ==
    LET own == [j \in DOMAIN ens.survivors |->
                   forecaster.weights[ConfiguredIndex(ens.survivors[j])]]
    IN  [j \in DOMAIN own |-> RDiv(own[j], RSum(own))]

\* C21: when a component raised or a configured name has no forecaster, the
\* weight the combination applies to each surviving component is that
\* component's own configured weight divided by the sum of the configured
\* weights of the survivors, whatever the position of the dropped component.
C21_OwnWeights ==
    Combined => ens.weights = OwnWeights

\* the weighted sum, over the components that list the entity, of their values
\* for period i, the weights of these components renormalized to sum 1
RenormalizedSum(id, i) ==
    LET listed == SelectSeq([j \in DOMAIN ens.all_forecasts |-> j],
                            LAMBDA j : j \in ListedBy(id))
        total == RSum([n \in DOMAIN listed |-> ens.weights[listed[n]]])
    IN  RSum([n \in DOMAIN listed |->
                RMul(RDiv(ens.weights[listed[n]], total),
                     ComponentSku(listed[n], id).forecast_detalle[i])])

\* C22: in the combined result of the ensemble, the forecast of an entity that
\* only some surviving components list is, for each period, the weighted sum
\* over exactly those components, each with its own weight, the weights used
\* for the entity renormalized to sum 1.
C22_PartialEntity ==
    Combined /\ pc = "done" /\ req.entry = "ensemble" =>
        \A k \in DOMAIN forecast_result.skus :
            \A i \in 1..req.forecastMonths :
                forecast_result.skus[k].forecast_detalle[i] =
                    RenormalizedSum(forecast_result.skus[k].skuId, i)

\* the metrics the surviving components report for the entity, undefined ones
\* (None: the component had 999) left out
DefinedMetrics(id) ==
    LET all == Concat([f \in DOMAIN ens.all_forecasts |-> TopSkus(ens.all_forecasts[f])])
        mine == SelectSeq(all, LAMBDA x : x.skuId = id)
    IN  SelectSeq([j \in DOMAIN mine |-> mine[j].mape], LAMBDA m : m # None)

\* C23: the combined metric of an entity of the ensemble is the arithmetic mean
\* of the component metrics that are defined, a metric of 0 counting as
\* defined, and it is undefined exactly when no component metric is defined.
C23_CombinedMetric ==
    Combined /\ (pc = "adjust" \/ (pc = "done" /\ req.entry = "ensemble")) =>
        \A k \in DOMAIN forecast_result.skus :
            LET defined == DefinedMetrics(forecast_result.skus[k].skuId)
            IN  forecast_result.skus[k].mape =
                    IF defined = <<>> THEN None ELSE RMean(defined)

\* the entity with each period's value multiplied by the probability its id
\* has for the period
SurvivalAdjusted(e) ==
    LET det == [i \in DOMAIN e.forecast_detalle |->
                   RMul(e.forecast_detalle[i], survival_probs[e.skuId][i])]
    IN  [e EXCEPT !.forecast_detalle = det, !.forecast = det[1]]

\* C24: when the survival adjustment is applied, every entity of the result,
\* in the top list and in the full detail, also outside the top 20, gets each
\* period's value multiplied by the entity's probability for the period, and
\* its first-period forecast is the first adjusted value.
C24_SurvivalAdjusted ==
    [][pc = "adjust" /\ pc' = "respond" /\ DOMAIN survival_probs # {} =>
          /\ forecast_result'.top = forecast_result.top
          /\ \A k \in DOMAIN forecast_result.skus :
                forecast_result'.skus[k] = SurvivalAdjusted(forecast_result.skus[k])]_vars

\* a response of one strategy alone, not adjusted afterwards
RefusalModel ==
    /\ Answered /\ ~req.options.survival
    /\ \/ req.entry = "app" /\ req.model \in {"prophet", "holtwinters"}
       \/ /\ req.entry = "root"
          /\ req.model \in {"prophet", "holtwinters", "sarimax", "ml_cluster"}

\* the strategy refused the k-th entity or its fit raised, and the entity was
\* not overridden as closed
Refused(k) ==
    LET e == resp.detalleCompleto.resultadosPorSku[k]
    IN  IF req.entry = "root"
        THEN e.estado \in {"sin_datos_suficientes", "prophet_fallback", "hw_fallback",
                           "sarimax_fallback", "ml_fallback"}
        ELSE /\ e.estado # "cerrado"
             /\ ~ForecasterSku(forecaster, History(k), req.forecastMonths, FitOf(k)).fitted

\* C25: whenever a strategy refuses an entity for insufficient data or errors
\* for it, the entity's forecast is the average of the last up-to-3 nonzero
\* historical values repeated over the horizon and its metric is undefined,
\* for Prophet, Holt-Winters and the models of AdvancedForecaster.
C25_Fallback ==
    RefusalModel =>
        \A k \in DOMAIN resp.detalleCompleto.resultadosPorSku :
            Refused(k) =>
                LET e == resp.detalleCompleto.resultadosPorSku[k]
                IN  /\ e.forecast_detalle = FallbackPolicyValue(History(k), req.forecastMonths)
                    /\ e.mape = None

\* a request answered by one strategy that fits its library entity by entity
FaultModel ==
    /\ pc = "done" /\ req.model \in oracle.set /\ oracle[req.model] # <<>>
    /\ \/ req.entry = "app" /\ req.model \in {"prophet", "holtwinters"}
                            /\ ~req.options.survival
       \/ req.entry = "root" /\ req.model \in {"prophet", "holtwinters", "sarimax"}

\* the library's answers with every failure replaced by a successful fit
FaultFree ==
    [k \in DOMAIN oracle[req.model] |->
        IF oracle[req.model][k].raises THEN OutcomeSeq(req.forecastMonths)[3]
        ELSE oracle[req.model][k]]

\* the entity results of the same request had no fit raised
FaultFreeSkus ==
    IF req.entry = "app"
    THEN Forecaster_forecast(NewForecaster(req.model, req.options.seasonal_period),
                             req.sales, req.forecastMonths, req.endDate, FaultFree,
                             FALSE).result.skus
    ELSE Advanced_forecast(AdvancedForecaster_init(req.model, req.forecastMonths),
                           req.sales, req.endDate, survival_probs, env.installed,
                           [prophet |-> FaultFree, holtwinters |-> FaultFree,
                            sarimax |-> FaultFree, ml |-> oracle.ml]).response.skus

\* the strategy went as far as fitting the k-th entity, and the fit raised
Faulted(k) ==
    /\ oracle[req.model][k].raises
    /\ IF req.entry = "app"
       THEN ForecasterSku(NewForecaster(req.model, req.options.seasonal_period),
                          History(k), req.forecastMonths, FaultFree[k]).fitted
       ELSE Len(Positives(History(k))) >= (IF req.model = "prophet" THEN 3 ELSE 12)

\* C26: if fitting or predicting raises for one entity, the error is not
\* propagated: the request is answered with a complete result in which that
\* entity has a forecast of forecastMonths non-negative values and an undefined
\* metric, and every other entity's result is what it is without the fault.
C26_FaultContained ==
    FaultModel /\ (\E k \in DOMAIN oracle[req.model] : Faulted(k)) =>
        /\ resp.status = 200
        /\ DOMAIN resp.detalleCompleto.resultadosPorSku = DOMAIN oracle[req.model]
        /\ \A k \in DOMAIN resp.detalleCompleto.resultadosPorSku :
              LET e == resp.detalleCompleto.resultadosPorSku[k]
              IN  IF Faulted(k)
                  THEN /\ e.mape = None
                       /\ Len(e.forecast_detalle) = req.forecastMonths
                       /\ \A i \in DOMAIN e.forecast_detalle : RNonNeg(e.forecast_detalle[i])
                       /\ e.forecast = e.forecast_detalle[1]
                  ELSE e = FaultFreeSkus[k]

\* the fit raised for the first of two entities and the second was fitted
C26_Witness ==
    /\ FaultModel /\ resp.status = 200
    /\ Len(resp.detalleCompleto.resultadosPorSku) = 2
    /\ Faulted(1) /\ ~oracle[req.model][2].raises
    /\ resp.detalleCompleto.resultadosPorSku[1].mape = None
    /\ resp.detalleCompleto.resultadosPorSku[2].mape # None

\* C27: in EnsembleForecaster.forecast the combination starts only after every
\* component has been invoked exactly once and has returned a result or
\* raised: the components run one after the other, none of them twice, and
\* there is no combined result while a component has not run.
C27_Barrier ==
    "runs" \in DOMAIN ens =>
        /\ \A j \in DOMAIN ens.runs : ens.runs[j] = IF j < ens.i THEN 1 ELSE 0
        /\ Len(ens.all_forecasts) = Len(ens.survivors)
        /\ \A n \in DOMAIN ens.survivors : ens.survivors[n] < ens.i
        /\ ens.i <= Len(forecaster.forecasters) =>
              ~ens.combined /\ forecast_result = NoValue /\ resp = NoValue
        /\ ens.combined =>
              /\ \A j \in DOMAIN forecaster.forecasters : ens.runs[j] = 1
              /\ forecast_result # NoValue

\* three components have run once each, the second raised, and the other two
\* were combined
C27_Witness ==
    /\ Combined /\ Len(forecaster.forecasters) = 3
    /\ ens.runs = <<1, 1, 1>>
    /\ ens.survivors = <<1, 3>>
    /\ forecast_result # NoValue

\* the i-th calendar month after the month of a date, as a label
MonthAfter(f, i) == <<f.y + (f.m - 1 + i) \div 12, ((f.m - 1 + i) % 12) + 1>>

\* the date of the cutoff month
CutoffDate == req.sales.mesesFecha[Index(req.sales.meses, req.endDate)]

\* C28: the forecast period labels of a response are the forecastMonths
\* consecutive calendar months that follow the cutoff month, none skipped or
\* repeated, whatever day of the month the cutoff's date falls on.
C28_ForecastMonths ==
    Answered =>
        resp.detalleCompleto.forecastMeses =
            [i \in 1..req.forecastMonths |-> MonthAfter(CutoffDate, i)]

\* the request's sales with every value of a month after the cutoff set to 0
CutAt(sales, end_idx) ==
    [sales EXCEPT !.clientes =
        [ci \in DOMAIN sales.clientes |->
            [sales.clientes[ci] EXCEPT !.skus =
                [si \in DOMAIN sales.clientes[ci].skus |->
                    [sales.clientes[ci].skus[si] EXCEPT !.ventasMes =
                        [m \in DOMAIN sales.clientes[ci].skus[si].ventasMes |->
                            IF m \in Range(sales.meses) /\ Index(sales.meses, m) > end_idx
                            THEN 0
                            ELSE sales.clientes[ci].skus[si].ventasMes[m]]]]]]]

\* the request of the state without its sales after the cutoff
SalesUpToCutoff == CutAt(req.sales, Index(req.sales.meses, req.endDate))

\* a request of the root service has been answered with 200
RootAnswered == Answered /\ req.entry = "root"

\* the survival probabilities do not depend on the sales after the cutoff
SurvivalFromHistory ==
    survival_probs =
        IF req.options.survival
        THEN predict_continuity(SalesUpToCutoff, req.endDate, "lifelines" \in env.installed)
        ELSE <<>>

\* forecasts, aggregates and charts do not depend on the sales after the cutoff
ForecastFromHistory ==
    forecast_result =
        Advanced_forecast(AdvancedForecaster_init(forecaster.model_type,
                                                  forecaster.forecast_horizon),
                          SalesUpToCutoff, req.endDate, survival_probs, env.installed,
                          [prophet |-> oracle.prophet, holtwinters |-> oracle.holtwinters,
                           sarimax |-> oracle.sarimax, ml |-> oracle.ml]).response

\* the cluster assignments are ones the sales up to the cutoff can give
ClustersFromHistory ==
    req.model = "ml_cluster" =>
        \E labels \in KMeansLabels(ClientSeries(SalesUpToCutoff),
                                   KMeansClusters(req.options.n_clusters,
                                                  Len(ClientIds(SalesUpToCutoff)))) :
            clusters = ClientClusterer_fit_predict(SalesUpToCutoff, req.options.n_clusters,
                                                   labels).labels

\* C29: no sales value of a month after the cutoff influences any output of
\* predict: the per-entity forecasts, aggregates, charts, cluster assignments,
\* survival probabilities and warnings of an answered request are those of
\* the same request with the values after the cutoff month taken away.
C29_NoLaterInfluence ==
    RootAnswered => SurvivalFromHistory /\ ForecastFromHistory /\ ClustersFromHistory

\* EnsembleForecaster.forecast has left its loop with at least one component's
\* forecast for a request that passes validate_data, and the handler is done
CombineReached ==
    /\ pc = "done" /\ "all_forecasts" \in DOMAIN ens
    /\ ens.i > Len(forecaster.forecasters) /\ ens.all_forecasts # <<>>
    /\ validate_data(req.sales, req.endDate).valid

\* C30: for a request that passes validation, two entities with the same
\* skuId included, _combine_forecasts never fails with an out-of-range weight
\* or forecast index, and the combined result keeps a separate entry for each
\* input entity instead of merging the entities that share an identifier.
C30_SeparateEntries ==
    CombineReached =>
        /\ Combined
        /\ \A f \in DOMAIN ens.all_forecasts :
              Len(forecast_result.skus) >= Len(ens.all_forecasts[f].top)

====
